---- MODULE Spec2Model ----
(***************************************************************************)
(* Model of the VOLaM-RAG core: the NullnessService (per-concept           *)
(* uncertainty history with record / explicit support-refute update) and   *)
(* the RankingService (baseline and VOLaM scoring, sort, truncation).      *)
(*                                                                         *)
(* Numbers.  JavaScript numbers are modelled as exact fixed-point          *)
(* integers:                                                               *)
(*   - nullness, cosine score, confidence, weights : thousandths (0.5 is   *)
(*     500);                                                               *)
(*   - evidenceStrength, k, lambda                 : tenths (0.9 is 9), so *)
(*     k * evidenceStrength * lambda^1 is a number of thousandths;         *)
(*   - alpha, beta, gamma                          : thousandths;          *)
(*   - empathy fit                                 : 1/12000 (the average  *)
(*     over 1..4 matched stakeholders is exact);                           *)
(*   - VOLaM / baseline score                      : 1/12000000.           *)
(* Floating-point rounding is not modelled.                                *)
(***************************************************************************)
EXTENDS Integers, Sequences, FiniteSets, TLC

VARIABLES clock, history, lastCall, index, rankCall, funCall, answerCall,
          pendingCalls, nullnessServices, hookProfile

vars == <<clock, history, lastCall, index, rankCall, funCall, answerCall,
          pendingCalls, nullnessServices, hookProfile>>

(***************************************************************************)
(* Bounds of the model.                                                    *)
(***************************************************************************)
MaxClock == 1
MaxHist == 2
MaxCand == 4

\* longest stakeholder tag list handed to calculateEmpathyFit
MaxTags == 2

(***************************************************************************)
(* Generic helpers.                                                        *)
(***************************************************************************)
Min(a, b) == IF a < b THEN a ELSE b

Max(a, b) == IF a > b THEN a ELSE b

Abs(a) == IF a < 0 THEN 0 - a ELSE a

\* Array.prototype.slice(0, n)
Take(s, n) == SubSeq(s, 1, Min(n, Len(s)))

\* Math.pow(base, exponent) for a natural exponent
RECURSIVE Pow(_, _)
Pow(base, exponent) == IF exponent = 0 THEN 1 ELSE base * Pow(base, exponent - 1)

(***************************************************************************)
(* Concept extraction: query.toLowerCase().split(' ').slice(0, 3)          *)
(*                          .join('_').replace(/[^a-z0-9_]/g, '')          *)
(* A string is a sequence of one-character strings.                        *)
(***************************************************************************)
LowerOf == [ch \in {"A", "B", "C", "D", "W"} |->
              CASE ch = "A" -> "a" [] ch = "B" -> "b" [] ch = "C" -> "c"
                [] ch = "D" -> "d" [] ch = "W" -> "w"]

ToLowerCase(s) == [i \in 1..Len(s) |-> IF s[i] \in DOMAIN LowerOf THEN LowerOf[s[i]] ELSE s[i]]

RECURSIVE SplitFrom(_, _, _, _)
SplitFrom(s, i, cur, acc) ==
  IF i > Len(s) THEN Append(acc, cur)
  ELSE IF s[i] = " " THEN SplitFrom(s, i + 1, <<>>, Append(acc, cur))
  ELSE SplitFrom(s, i + 1, Append(cur, s[i]), acc)

\* String.prototype.split(' '): splits on every single space character
SplitOnSpace(s) == SplitFrom(s, 1, <<>>, <<>>)

RECURSIVE JoinWith(_, _)
JoinWith(tokens, sep) ==
  IF Len(tokens) = 0 THEN <<>>
  ELSE IF Len(tokens) = 1 THEN tokens[1]
  ELSE tokens[1] \o <<sep>> \o JoinWith(Tail(tokens), sep)

ConceptChars == {"a", "b", "c", "d", "e", "f", "g", "h", "i", "j", "k", "l", "m",
                 "n", "o", "p", "q", "r", "s", "t", "u", "v", "w", "x", "y", "z",
                 "0", "1", "2", "3", "4", "5", "6", "7", "8", "9", "_"}

\* String.prototype.replace(/[^a-z0-9_]/g, '')
StripNonConceptChars(s) == SelectSeq(s, LAMBDA ch : ch \in ConceptChars)

extractConcept(query) ==
  StripNonConceptChars(JoinWith(Take(SplitOnSpace(ToLowerCase(query)), 3), "_"))

(***************************************************************************)
(* NullnessService                                                         *)
(***************************************************************************)
DefaultNullness == 500

\* this.history.get(concept) || []
getNullnessHistory(h, concept) ==
  IF concept \in DOMAIN h THEN h[concept] ELSE <<>>

\* Variant of getCurrentNullness that reads the first entry instead of the last.
getCurrentNullnessFirst(h, concept) ==
  IF concept \in DOMAIN h /\ Len(h[concept]) > 0 THEN h[concept][1].nullness ELSE DefaultNullness

getCurrentNullness(h, concept) ==
  LET hist == getNullnessHistory(h, concept)
  IN  IF Len(hist) > 0 THEN hist[Len(hist)].nullness ELSE DefaultNullness

\* calculateDeltaNullness(concept, timeWindow) at time now: latest minus
\* earliest nullness of the entries not older than the window (time in ticks)
calculateDeltaNullness(h, concept, timeWindow, now) ==
  LET hist == getNullnessHistory(h, concept)
      InWindow(entry) == entry.timestamp >= now - timeWindow
      recentEntries == SelectSeq(hist, InWindow)
  IN  IF Len(hist) < 2 THEN 0
      ELSE IF Len(recentEntries) < 2 THEN 0
      ELSE recentEntries[Len(recentEntries)].nullness - recentEntries[1].nullness

\* Variant of PushEntry that puts the new entry in front of the older ones.
PushEntryInFront(h, concept, entry) ==
  IF concept \in DOMAIN h
  THEN [h EXCEPT ![concept] = <<entry>> \o @]
  ELSE h @@ (concept :> <<entry>>)

\* if (!this.history.has(concept)) this.history.set(concept, []);
\* this.history.get(concept).push(entry)
PushEntry(h, concept, entry) ==
  IF concept \in DOMAIN h
  THEN [h EXCEPT ![concept] = Append(@, entry)]
  ELSE h @@ (concept :> <<entry>>)

\* Variant of Clamp01 that enforces the lower bound only.
ClampLowerOnly(x) == Max(0, x)

\* Math.max(0, Math.min(1, x)) on thousandths
Clamp01(x) == Max(0, Min(1000, x))

\* The entry that updateNullness builds from the ranking result it is given.
RecordEntry(query, results, now) ==
  [concept        |-> extractConcept(query),
   timestamp      |-> now,
   nullness       |-> results.nullness,
   confidence     |-> results.confidence,
   evidence_count |-> results.evidence_count]

\* history.length > 0 ? history[history.length - 1].nullness : 0.5
CurrentOrDefault(hist) ==
  IF Len(hist) > 0 THEN hist[Len(hist)].nullness ELSE DefaultNullness

\* const timeDelta = 1.0  (the time since the last update is not computed)
TimeDelta == 1

\* Math.pow(lambda, timeDelta), lambda in tenths
DecayFactor(lambda, timeDelta) == Pow(lambda, timeDelta)

\* Variant of EvidenceImpact that leaves the evidence strength out.
EvidenceImpactNoStrength(k, evidenceStrength, decayFactor) == k * 10 * decayFactor

\* k * evidenceStrength * decayFactor: with k, evidenceStrength and the decay
\* factor of timeDelta = 1 in tenths, a number of thousandths
EvidenceImpact(k, evidenceStrength, decayFactor) == k * evidenceStrength * decayFactor

\* Variant of RawNullness in which refute subtracts, like support.
RawNullnessBothSubtract(currentNullness, action, evidenceImpact) ==
  currentNullness - evidenceImpact

\* support decreases nullness, refute increases it (before clamping)
RawNullness(currentNullness, action, evidenceImpact) ==
  IF action = "support"
  THEN currentNullness - evidenceImpact
  ELSE currentNullness + evidenceImpact

\* Variant of DeltaNullness with the operands swapped.
DeltaNullnessSwapped(newNullness, currentNullness) == currentNullness - newNullness

\* const deltaNullness = newNullness - currentNullness
DeltaNullness(newNullness, currentNullness) == newNullness - currentNullness

\* updateNullnessExplicit after its await: the values it computes from the
\* array hist that getNullnessHistory handed it, at time now.
ExplicitUpdateFrom(hist, concept, action, evidenceStrength, k, lambda, now) ==
  LET currentNullness == CurrentOrDefault(hist)
      decayFactor     == DecayFactor(lambda, TimeDelta)
      evidenceImpact  == EvidenceImpact(k, evidenceStrength, decayFactor)
      rawNullness     == RawNullness(currentNullness, action, evidenceImpact)
      newNullness     == Clamp01(rawNullness)
  IN  [oldNullness    |-> currentNullness,
       newNullness    |-> newNullness,
       deltaNullness  |-> DeltaNullness(newNullness, currentNullness),
       decayFactor    |-> decayFactor,
       evidenceImpact |-> evidenceImpact,
       rawNullness    |-> rawNullness,
       timestamp      |-> now,
       entry          |-> [concept        |-> concept,
                           timestamp      |-> now,
                           nullness       |-> newNullness,
                           confidence     |-> 1000 - newNullness,
                           evidence_count |-> 1]]

\* updateNullnessExplicit: the values it computes from the history h at time
\* now when nothing runs between its read of the history and its append.
ExplicitUpdate(h, concept, action, evidenceStrength, k, lambda, now) ==
  ExplicitUpdateFrom(getNullnessHistory(h, concept), concept, action,
                     evidenceStrength, k, lambda, now)

(***************************************************************************)
(* Inputs of the NullnessService operations.                               *)
(***************************************************************************)
\* Query strings handed to updateNullness.
Queries == { <<"A", " ", "b">>,
             <<"W", "?", " ", "a", " ", "b", " ", "c">> }

\* Concept ids a client names in an explicit update or a read.
Concepts == { <<"a", "_", "b">>, <<"w">> }

Actions == {"support", "refute"}

\* evidence_strength in [0, 1], k in [0, 2], lambda in [0, 1], as tenths
Strengths == {0, 5, 10}

KFactors == {4, 20}

Lambdas == {5, 10}

\* timeWindow of a delta read, in clock ticks
TimeWindows == {0, 1}

\* What updateNullness reads of a RankingResult: the results of a baseline
\* ranking over one document of cosine score 0.85, and over no document.
ObservedResults == { [nullness |-> 150, confidence |-> 850, evidence_count |-> 1],
                     [nullness |-> 1000, confidence |-> 0, evidence_count |-> 0] }

RECURSIVE SumLen(_, _)
SumLen(h, keys) ==
  IF keys = {} THEN 0
  ELSE LET c == CHOOSE x \in keys : TRUE
       IN  Len(h[c]) + SumLen(h, keys \ {c})

\* Number of entries held by the service, over all concepts.
TotalEntries(h) == SumLen(h, DOMAIN h)

EmptyMap == [c \in {} |-> <<>>]

NoCall == [op |-> "none", concept |-> <<>>, action |-> "none",
           evidenceStrength |-> 0, k |-> 0, lambda |-> 0,
           decayFactor |-> 0, evidenceImpact |-> 0, rawNullness |-> 0,
           oldNullness |-> 0, newNullness |-> 0, deltaNullness |-> 0,
           timestamp |-> 0, before |-> EmptyMap]

NoRank == [mode |-> "none"]

NoFun == [fn |-> "none"]

NoAnswer == [op |-> "none"]

\* useState(DEFAULT_PROFILE) of the empathy-profile hook: 0.4, 0.3, 0.2, 0.1
InitialProfile ==
  [general_public       |-> [num |-> 400, den |-> 1000],
   experts              |-> [num |-> 300, den |-> 1000],
   policymakers         |-> [num |-> 200, den |-> 1000],
   affected_communities |-> [num |-> 100, den |-> 1000]]

\* the trackers of the three route modules, each a new NullnessService()
NoServices == [rank |-> EmptyMap, nullness |-> EmptyMap, answer |-> EmptyMap]

(***************************************************************************)
(* State after construction: new NullnessService() has an empty Map.       *)
(***************************************************************************)
Init ==
  /\ clock = 0
  /\ history = EmptyMap
  /\ lastCall = NoCall
  /\ index = <<>>
  /\ rankCall = NoRank
  /\ funCall = NoFun
  /\ answerCall = NoAnswer
  /\ pendingCalls = <<>>
  /\ nullnessServices = NoServices
  /\ hookProfile = InitialProfile

\* Time passes between calls (new Date() has millisecond resolution; two
\* calls can read the same instant).
Tick ==
  /\ clock < MaxClock
  /\ clock' = clock + 1
  /\ UNCHANGED <<history, lastCall, index, rankCall, funCall, answerCall, pendingCalls, nullnessServices,
                 hookProfile>>

\* NullnessService.updateNullness(query, results)
updateNullness(query, results) ==
  /\ TotalEntries(history) < MaxHist
  /\ history' = PushEntry(history, extractConcept(query),
                          RecordEntry(query, results, clock))
  /\ lastCall' = [NoCall EXCEPT !.op = "updateNullness",
                                !.concept = extractConcept(query),
                                !.newNullness = results.nullness,
                                !.timestamp = clock,
                                !.before = history]
  /\ UNCHANGED <<clock, index, rankCall, funCall, answerCall, pendingCalls, nullnessServices, hookProfile>>

\* NullnessService.updateNullnessExplicit(concept, action, evidenceStrength, k, lambda)
updateNullnessExplicit(concept, action, evidenceStrength, k, lambda) ==
  /\ TotalEntries(history) < MaxHist
  /\ LET r == ExplicitUpdate(history, concept, action, evidenceStrength, k, lambda, clock)
     IN  /\ history' = PushEntry(history, concept, r.entry)
         /\ lastCall' = [op |-> "updateNullnessExplicit", concept |-> concept,
                         action |-> action, evidenceStrength |-> evidenceStrength,
                         k |-> k, lambda |-> lambda,
                         decayFactor |-> r.decayFactor,
                         evidenceImpact |-> r.evidenceImpact,
                         rawNullness |-> r.rawNullness,
                         oldNullness |-> r.oldNullness,
                         newNullness |-> r.newNullness,
                         deltaNullness |-> r.deltaNullness,
                         timestamp |-> r.timestamp,
                         before |-> history]
  /\ UNCHANGED <<clock, index, rankCall, funCall, answerCall, pendingCalls, nullnessServices, hookProfile>>

\* NullnessService.getCurrentNullness(concept): the value it returns
currentNullnessRead(concept) ==
  /\ lastCall' = [NoCall EXCEPT !.op = "getCurrentNullness",
                                !.concept = concept,
                                !.newNullness = getCurrentNullness(history, concept),
                                !.timestamp = clock,
                                !.before = history]
  /\ UNCHANGED <<clock, history, index, rankCall, funCall, answerCall, pendingCalls, nullnessServices,
                 hookProfile>>

\* NullnessService.calculateDeltaNullness(concept, timeWindow): the value it returns
deltaNullnessRead(concept, timeWindow) ==
  /\ lastCall' = [NoCall EXCEPT !.op = "calculateDeltaNullness",
                                !.concept = concept,
                                !.deltaNullness =
                                   calculateDeltaNullness(history, concept, timeWindow, clock),
                                !.timestamp = clock,
                                !.before = history]
  /\ UNCHANGED <<clock, history, index, rankCall, funCall, answerCall, pendingCalls, nullnessServices,
                 hookProfile>>

\* NullnessService.getNullnessHistory(concept), as the history route reads it
\* (it filters, slices and maps copies of the array it is handed)
nullnessHistoryRead(concept) ==
  /\ lastCall' = [NoCall EXCEPT !.op = "getNullnessHistory",
                                !.concept = concept,
                                !.timestamp = clock,
                                !.before = history]
  /\ UNCHANGED <<clock, history, index, rankCall, funCall, answerCall, pendingCalls, nullnessServices,
                 hookProfile>>

Next ==
  \/ Tick
  \/ \E q \in Queries, res \in ObservedResults : updateNullness(q, res)
  \/ \E c \in Concepts, a \in Actions, s \in Strengths, k \in KFactors, l \in Lambdas :
       updateNullnessExplicit(c, a, s, k, l)
  \/ \E c \in Concepts : currentNullnessRead(c)

Spec == Init /\ [][Next]_vars

\* A RankingResult as a caller other than the ranking routes can hand it to
\* updateNullness (the method takes any number as nullness): nullness 1.5
\* and nullness -0.25.
UncheckedResults == { [nullness |-> 1500, confidence |-> 850, evidence_count |-> 1],
                      [nullness |-> -250, confidence |-> 850, evidence_count |-> 1] }

\* The operations of the NullnessService with all its reads: observations of
\* any result, explicit updates (strength 0.5, k 0.4, lambda 1.0) and the
\* reads current, delta and history.
NextHistory ==
  \/ Tick
  \/ \E q \in Queries, res \in ObservedResults \cup UncheckedResults :
       updateNullness(q, res)
  \/ \E c \in Concepts, a \in Actions : updateNullnessExplicit(c, a, 5, 4, 10)
  \/ \E c \in Concepts : currentNullnessRead(c)
  \/ \E c \in Concepts, w \in TimeWindows : deltaNullnessRead(c, w)
  \/ \E c \in Concepts : nullnessHistoryRead(c)

SpecHistory == Init /\ [][NextHistory]_vars

TypeOK ==
  /\ clock \in 0..MaxClock
  /\ \A c \in DOMAIN history : Len(history[c]) >= 1

(***************************************************************************)
(* EmpathyService                                                          *)
(***************************************************************************)
\* stakeholderKeywords of extractContentTags: stakeholder -> keywords
StakeholderKeywords ==
  [general_public           |-> {"public", "citizens", "people", "community", "society"},
   experts                  |-> {"expert", "scientist", "researcher", "specialist", "professional"},
   policymakers             |-> {"policy", "government", "regulation", "law", "official"},
   affected_communities     |-> {"affected", "vulnerable", "marginalized", "impacted", "disadvantaged"},
   environmental_scientists |-> {"environmental", "climate", "ecology", "conservation"},
   healthcare_workers       |-> {"healthcare", "medical", "doctor", "nurse", "patient"}]

\* extractContentTags: a stakeholder is tagged when the content includes one
\* of its keywords (a content is modelled by the set of keywords it includes;
\* the documents carry no metadata.stakeholders).
extractContentTags(keywords) ==
  {st \in DOMAIN StakeholderKeywords : StakeholderKeywords[st] \cap keywords # {}}

\* The loaded profiles (data/profiles/empathy-profiles.json as seeded, equal
\* to the built-in fallback), weights in thousandths.
Profiles ==
  [default         |-> [general_public |-> 400, experts |-> 300,
                        policymakers |-> 200, affected_communities |-> 100],
   climate_focused |-> [affected_communities |-> 400, environmental_scientists |-> 300,
                        policymakers |-> 200, general_public |-> 100]]

\* Property names every JavaScript object inherits: this.profiles[name] is
\* then a value of Object.prototype, which has no stakeholders.
InheritedKeys == {"constructor", "toString"}

\* this.profiles[profileName] || this.profiles.default, and whether the value
\* it yields has a stakeholders map
ResolveProfileIn(profiles, profileName) ==
  IF profileName \in DOMAIN profiles
  THEN [hasStakeholders |-> TRUE, stakeholders |-> profiles[profileName]]
  ELSE IF profileName \in InheritedKeys
  THEN [hasStakeholders |-> FALSE, stakeholders |-> <<>>]
  ELSE [hasStakeholders |-> TRUE, stakeholders |-> profiles["default"]]

\* stakeholder.toLowerCase().replace(/\s+/g, '_') on the tags of the model
NormalizeStakeholder(stakeholder) ==
  IF stakeholder = "General Public" THEN "general_public" ELSE stakeholder

\* if (profile.stakeholders[normalizedStakeholder]): the weight is defined
\* and not 0
IsMatched(weights, stakeholder) ==
  /\ NormalizeStakeholder(stakeholder) \in DOMAIN weights
  /\ weights[NormalizeStakeholder(stakeholder)] # 0

\* the loop of calculateEmpathyFit over the tag list: totalFit (thousandths)
RECURSIVE TotalFit(_, _)
TotalFit(weights, stakeholders) ==
  IF Len(stakeholders) = 0 THEN 0
  ELSE (IF IsMatched(weights, Head(stakeholders))
        THEN weights[NormalizeStakeholder(Head(stakeholders))] ELSE 0)
       + TotalFit(weights, Tail(stakeholders))

\* the loop of calculateEmpathyFit over the tag list: matchedStakeholders
RECURSIVE MatchedStakeholders(_, _)
MatchedStakeholders(weights, stakeholders) ==
  IF Len(stakeholders) = 0 THEN 0
  ELSE (IF IsMatched(weights, Head(stakeholders)) THEN 1 ELSE 0)
       + MatchedStakeholders(weights, Tail(stakeholders))

NeutralFit == 6000

LowFit == 2400

\* Variant of EmptyTagsFit that gives tags without stakeholders the low fit.
EmptyTagsFitLow == LowFit

\* the value returned for tags without stakeholders: 0.5
EmptyTagsFit == NeutralFit

\* calculateEmpathyFit(contentTags, profileName) of a service that loaded
\* profiles, on the tag list stakeholders: whether it raises (TypeError on
\* profile.stakeholders[...]) and the value it returns, in units of 1/12000
calculateEmpathyFitIn(profiles, stakeholders, profileName) ==
  LET profile == ResolveProfileIn(profiles, profileName)
      weights == profile.stakeholders
      totalFit == TotalFit(weights, stakeholders)
      matchedStakeholders == MatchedStakeholders(weights, stakeholders)
      avgFit  == (12 * totalFit) \div matchedStakeholders
      stakeholderBonus == Min(matchedStakeholders * 1200, 3600)
  IN  IF Len(stakeholders) = 0 THEN [raised |-> FALSE, value |-> EmptyTagsFit]
      ELSE IF ~profile.hasStakeholders THEN [raised |-> TRUE, value |-> 0]
      ELSE IF matchedStakeholders = 0 THEN [raised |-> FALSE, value |-> LowFit]
      ELSE [raised |-> FALSE, value |-> Min(avgFit + stakeholderBonus, 12000)]

\* the tags of a set of stakeholders as a list
RECURSIVE TagList(_)
TagList(sts) ==
  IF sts = {} THEN <<>>
  ELSE LET st == CHOOSE x \in sts : TRUE
       IN  <<st>> \o TagList(sts \ {st})

\* calculateEmpathyFit on the tags extractContentTags found (no stakeholder
\* twice), with the profiles of the repository, in units of 1/12000
calculateEmpathyFit(stakeholders, profileName) ==
  calculateEmpathyFitIn(Profiles, TagList(stakeholders), profileName).value

(***************************************************************************)
(* RankingService                                                          *)
(***************************************************************************)
\* Math.abs(scoreDiff) < 0.001, in score units of 1/12000000
TieThreshold == 12000

\* VectorStore.search(embedding, k): the first min(k, size) documents of the
\* index in its similarity order for the query
Search(idx, k) == Take(idx, k)

\* convertToEvidence: score and cosineScore are the similarity, nullness is
\* clamp(1 - score), empathyFit 0.  score is kept in units of 1/12000000.
convertToEvidence(searchResult) ==
  [id          |-> searchResult.id,
   keywords    |-> searchResult.keywords,
   score       |-> 12000 * searchResult.score,
   cosineScore |-> searchResult.score,
   nullness    |-> Clamp01(1000 - searchResult.score),
   empathyFit  |-> 0]

\* Variant of calculateVOLaMScore that weighs nullness instead of 1 - nullness.
calculateVOLaMScoreByNullness(cosineScore, nullness, empathyFit, alpha, beta, gamma) ==
  12 * (alpha * cosineScore + beta * nullness) + gamma * empathyFit

\* alpha * cosineScore + beta * (1 - nullness) + gamma * empathyFit
calculateVOLaMScore(cosineScore, nullness, empathyFit, alpha, beta, gamma) ==
  12 * (alpha * cosineScore + beta * (1000 - nullness)) + gamma * empathyFit

\* the loop body of rankWithVOLaM: empathy fit, then VOLaM score
ScoreEvidence(e, alpha, beta, gamma, empathyProfile) ==
  LET fit == calculateEmpathyFit(extractContentTags(e.keywords), empathyProfile)
  IN  [e EXCEPT !.empathyFit = fit,
                !.score = calculateVOLaMScore(e.cosineScore, e.nullness, fit,
                                              alpha, beta, gamma)]

\* the comparator handed to evidence.sort: negative when a goes first
CompareEvidence(a, b) ==
  LET scoreDiff == b.score - a.score
  IN  IF Abs(scoreDiff) < TieThreshold
      THEN b.cosineScore - a.cosineScore
      ELSE scoreDiff

\* Array.prototype.sort(comparator): a stable sort.  Every order it can leave
\* has each item compared "not after" its successor, and items that compare
\* equal in their input order; when the comparator is a consistent order on
\* the items this is the one sorted order, and when it is not (near-ties are
\* not transitive) the order is implementation-defined and any such order is
\* possible.
SortOutcomes(evidence) ==
  LET n == Len(evidence)
  IN  IF n = 0 THEN {<<>>}
      ELSE { [i \in 1..n |-> evidence[p[i]]] :
               p \in { q \in Permutations(1..n) :
                         \A i \in 1..(n - 1) :
                            \/ CompareEvidence(evidence[q[i]], evidence[q[i + 1]]) < 0
                            \/ /\ CompareEvidence(evidence[q[i]], evidence[q[i + 1]]) = 0
                               /\ q[i] < q[i + 1] } }

RECURSIVE SumField(_, _)
SumField(evidence, field) ==
  IF Len(evidence) = 0 THEN 0
  ELSE evidence[1][field] + SumField(Tail(evidence), field)

RECURSIVE MaxScore(_)
MaxScore(evidence) ==
  IF Len(evidence) = 1 THEN evidence[1].score
  ELSE Max(evidence[1].score, MaxScore(Tail(evidence)))

\* calculateConfidence: avgScore * 0.7 + maxScore * 0.3, as the fraction
\* num / den of score units (0 for no evidence)
calculateConfidence(evidence) ==
  IF Len(evidence) = 0 THEN [num |-> 0, den |-> 1]
  ELSE [num |-> 7 * SumField(evidence, "score") + 3 * MaxScore(evidence) * Len(evidence),
        den |-> 10 * Len(evidence)]

\* calculateAverageNullness: the fraction num / den of thousandths (1.0 for
\* no evidence)
calculateAverageNullness(evidence) ==
  IF Len(evidence) = 0 THEN [num |-> 1000, den |-> 1]
  ELSE [num |-> SumField(evidence, "nullness"), den |-> Len(evidence)]

\* rankBaseline(query, k) over the index idx
rankBaseline(idx, k) ==
  LET searchResults == Search(idx, k)
      evidence == [i \in 1..Len(searchResults) |-> convertToEvidence(searchResults[i])]
  IN  [mode       |-> "baseline",
       k          |-> k,
       alpha      |-> 0, beta |-> 0, gamma |-> 0,
       empathyProfile |-> "none",
       requested  |-> k,
       candidates |-> searchResults,
       evidence   |-> evidence,
       confidence |-> calculateConfidence(evidence),
       nullness   |-> calculateAverageNullness(evidence)]

\* the candidates of a VOLaM ranking, converted and scored, in index order
ScoredCandidates(searchResults, alpha, beta, gamma, empathyProfile) ==
  [i \in 1..Len(searchResults) |->
     ScoreEvidence(convertToEvidence(searchResults[i]), alpha, beta, gamma, empathyProfile)]

\* Variant of rankWithVOLaM that truncates to k before it sorts.
rankWithVOLaMTruncateFirst(idx, k, alpha, beta, gamma, empathyProfile) ==
  LET requested     == Max(k * 2, 10)
      searchResults == Search(idx, requested)
      scored        == ScoredCandidates(searchResults, alpha, beta, gamma, empathyProfile)
  IN  { [mode       |-> "volam",
         k          |-> k,
         alpha      |-> alpha, beta |-> beta, gamma |-> gamma,
         empathyProfile |-> empathyProfile,
         requested  |-> requested,
         candidates |-> searchResults,
         evidence   |-> sorted,
         confidence |-> calculateConfidence(sorted),
         nullness   |-> calculateAverageNullness(sorted)] :
        sorted \in SortOutcomes(Take(scored, k)) }

\* rankWithVOLaM(query, k, alpha, beta, gamma, empathyProfile) over the index
\* idx: the results it can return (one per order the sort can leave)
rankWithVOLaM(idx, k, alpha, beta, gamma, empathyProfile) ==
  LET requested     == Max(k * 2, 10)
      searchResults == Search(idx, requested)
      scored        == ScoredCandidates(searchResults, alpha, beta, gamma, empathyProfile)
  IN  { [mode       |-> "volam",
         k          |-> k,
         alpha      |-> alpha, beta |-> beta, gamma |-> gamma,
         empathyProfile |-> empathyProfile,
         requested  |-> requested,
         candidates |-> searchResults,
         evidence   |-> Take(sorted, k),
         confidence |-> calculateConfidence(sorted),
         nullness   |-> calculateAverageNullness(sorted)] :
        sorted \in SortOutcomes(scored) }

(***************************************************************************)
(* Inputs of the RankingService operations.                                *)
(***************************************************************************)
\* similarity scores of the indexed documents for the query (thousandths)
CosValues == {833, 838, 854}

\* contents of the indexed documents, as the keywords they include
Contents == { {}, {"public", "expert"}, {"policy", "affected"} }

KValues == {1, 2, 6}

\* (alpha, beta, gamma) in thousandths: the defaults, and the values of the
\* ranking tests
ParamSets == { <<600, 300, 100>>, <<500, 300, 200>> }

\* empathy profile names: the two loaded profiles and a name that is not loaded
ProfileNames == {"default", "climate_focused", "unlisted"}

\* The documents of the index in the order the index ranks them for the query
\* (descending similarity), each with its id.
IndexContents ==
  UNION { { [i \in 1..n |-> [id |-> i, score |-> f[i][1], keywords |-> f[i][2]]] :
              f \in { g \in [1..n -> CosValues \X Contents] :
                        \A i \in 1..(n - 1) : g[i][1] >= g[i + 1][1] } } :
          n \in 0..MaxCand }

InitRank ==
  /\ clock = 0
  /\ history = EmptyMap
  /\ lastCall = NoCall
  /\ index \in IndexContents
  /\ rankCall = NoRank
  /\ funCall = NoFun
  /\ answerCall = NoAnswer
  /\ pendingCalls = <<>>
  /\ nullnessServices = NoServices
  /\ hookProfile = InitialProfile

\* RankingService.rankBaseline(query, k)
RankBaseline(k) ==
  /\ rankCall = NoRank
  /\ rankCall' = rankBaseline(index, k)
  /\ UNCHANGED <<clock, history, lastCall, index, funCall, answerCall, pendingCalls, nullnessServices,
                 hookProfile>>

\* RankingService.rankWithVOLaM(query, k, alpha, beta, gamma, empathyProfile)
RankWithVOLaM(k, alpha, beta, gamma, empathyProfile) ==
  /\ rankCall = NoRank
  /\ rankCall' \in rankWithVOLaM(index, k, alpha, beta, gamma, empathyProfile)
  /\ UNCHANGED <<clock, history, lastCall, index, funCall, answerCall, pendingCalls, nullnessServices,
                 hookProfile>>

NextRank ==
  \/ \E k \in KValues : RankBaseline(k)
  \/ \E k \in KValues, ps \in ParamSets, prof \in ProfileNames :
       RankWithVOLaM(k, ps[1], ps[2], ps[3], prof)

SpecRank == InitRank /\ [][NextRank]_vars

(***************************************************************************)
(* rankWithVOLaM called with a stakeholder-to-weight mapping as its        *)
(* empathyProfile (specification SpecMapping).                             *)
(***************************************************************************)
\* this.profiles[profileName] with an object as profileName: the property
\* key is the object converted to a string
ToPropertyKey(mapping) == "[object Object]"

\* mappings a caller supplies (thousandths; the second is not normalized)
SuppliedProfiles == { [experts |-> 1000],
                      [experts |-> 1500, general_public |-> 500] }

\* RankingService.rankWithVOLaM(query, k, alpha, beta, gamma, mapping)
RankWithMapping(k, alpha, beta, gamma, mapping) ==
  /\ rankCall = NoRank
  /\ \E r \in rankWithVOLaM(index, k, alpha, beta, gamma, ToPropertyKey(mapping)) :
        rankCall' = [mode |-> "volam", k |-> r.k, candidates |-> r.candidates,
                     evidence |-> r.evidence, supplied |-> mapping]
  /\ UNCHANGED <<clock, history, lastCall, index, funCall, answerCall, pendingCalls, nullnessServices,
                 hookProfile>>

NextMapping ==
  \E k \in KValues, mapping \in SuppliedProfiles :
     RankWithMapping(k, 600, 300, 100, mapping)

SpecMapping == InitRank /\ [][NextMapping]_vars

(***************************************************************************)
(* EmpathyService.calculateEmpathyFit on any tag list, profile name and    *)
(* profiles file (specification SpecFit).                                  *)
(***************************************************************************)
\* A profiles file edited by hand: weights need not sum to 1 and a
\* stakeholder can be listed with weight 0.
EditedProfiles ==
  [default |-> [general_public |-> 900, experts |-> 900, policymakers |-> 0]]

\* What data/profiles/empathy-profiles.json can hold when the service loads it.
ProfileFiles == {Profiles, EditedProfiles}

\* stakeholder tags of a document (metadata.stakeholders or keyword matches)
StakeholderTags == {"general_public", "General Public", "experts", "policymakers",
                    "unknown_stakeholder"}

TagLists == UNION { [1..n -> StakeholderTags] : n \in 0..MaxTags }

\* profile names a caller passes: loaded ones, one that is not loaded, and
\* ones that name an inherited property
FitProfileNames == {"default", "climate_focused", "unknown_profile"} \cup InheritedKeys

\* new EmpathyService() over a profiles file, then
\* calculateEmpathyFit({stakeholders}, profileName)
CalculateEmpathyFit(profiles, stakeholders, profileName) ==
  /\ funCall' = [fn |-> "calculateEmpathyFit",
                 profiles |-> profiles,
                 stakeholders |-> stakeholders,
                 profileName |-> profileName,
                 result |-> calculateEmpathyFitIn(profiles, stakeholders, profileName)]
  /\ UNCHANGED <<clock, history, lastCall, index, rankCall, answerCall, pendingCalls, nullnessServices,
                 hookProfile>>

NextFit ==
  \E profiles \in ProfileFiles, stakeholders \in TagLists, profileName \in FitProfileNames :
     CalculateEmpathyFit(profiles, stakeholders, profileName)

SpecFit == Init /\ [][NextFit]_vars

(***************************************************************************)
(* The empathy-profile hook of the UI: normalizeProfile (specification     *)
(* SpecProfile).  A weight of the result is the fraction num / den.        *)
(***************************************************************************)
\* DEFAULT_PROFILE of the hook, in thousandths
DEFAULT_PROFILE ==
  [general_public |-> 400, experts |-> 300, policymakers |-> 200,
   affected_communities |-> 100]

\* Object.values(profile).reduce((sum, weight) => sum + weight, 0)
RECURSIVE SumValues(_, _)
SumValues(profile, keys) ==
  IF keys = {} THEN 0
  ELSE LET key == CHOOSE x \in keys : TRUE
       IN  profile[key] + SumValues(profile, keys \ {key})

\* Variant of WeightTotal that takes the number of stakeholders as the total.
WeightTotalByCount(profile) == Cardinality(DOMAIN profile)

WeightTotal(profile) == SumValues(profile, DOMAIN profile)

\* Variant of normalizeProfile that keeps an all-zero profile as it is.
normalizeProfileKeepZero(weights) ==
  LET total == WeightTotal(weights)
  IN  IF total = 0
      THEN [st \in DOMAIN weights |-> [num |-> 0, den |-> 1]]
      ELSE [st \in DOMAIN weights |-> [num |-> weights[st], den |-> total]]

\* normalizeProfile(profile): DEFAULT_PROFILE when the total is 0, else every
\* weight divided by the total
normalizeProfile(profile) ==
  LET total == WeightTotal(profile)
  IN  IF total = 0
      THEN [st \in DOMAIN DEFAULT_PROFILE |-> [num |-> DEFAULT_PROFILE[st], den |-> 1000]]
      ELSE [st \in DOMAIN profile |-> [num |-> profile[st], den |-> total]]

\* weights a caller sets for a stakeholder (thousandths)
RawWeights == {0, 100, 200, 300, 600}

\* profiles handed to setFullProfile
RawProfiles == [DOMAIN DEFAULT_PROFILE -> RawWeights]

\* setFullProfile(newProfile): the profile normalizeProfile yields
NormalizeProfile(profile) ==
  /\ funCall' = [fn |-> "normalizeProfile",
                 profile |-> profile,
                 result |-> normalizeProfile(profile)]
  /\ UNCHANGED <<clock, history, lastCall, index, rankCall, answerCall, pendingCalls, nullnessServices,
                 hookProfile>>

NextProfile == \E profile \in RawProfiles : NormalizeProfile(profile)

SpecProfile == Init /\ [][NextProfile]_vars

(***************************************************************************)
(* AnswerService and the GET /answer handler (specification SpecAnswer).   *)
(* history is the tracker of the AnswerService's own NullnessService.      *)
(* Quotients are kept as fractions num / den in lowest terms, den > 0.     *)
(***************************************************************************)
RECURSIVE GCD(_, _)
GCD(a, b) == IF b = 0 THEN Abs(a) ELSE GCD(b, a % Abs(b))

\* the fraction n / d (d > 0) in lowest terms
Fraction(n, d) ==
  LET g == GCD(Abs(n), d)
  IN  [num |-> n \div g, den |-> d \div g]

\* the product of two fractions in lowest terms
Times(a, b) ==
  LET x == Fraction(a.num, b.den)
      y == Fraction(b.num, a.den)
  IN  [num |-> x.num * y.num, den |-> x.den * y.den]

\* 1 - x for a fraction x of thousandths (x.num / x.den thousandths)
OneMinus(x) == Fraction(1000 * x.den - x.num, 1000 * x.den)

\* Math.max(0, Math.min(1, x)) on a fraction
ClampFraction(x) ==
  IF x.num < 0 THEN [num |-> 0, den |-> 1]
  ELSE IF x.num > x.den THEN [num |-> 1, den |-> 1]
  ELSE x

\* AnswerService.extractConcept: the same steps as the NullnessService's
answerExtractConcept(query) ==
  StripNonConceptChars(JoinWith(Take(SplitOnSpace(ToLowerCase(query)), 3), "_"))

\* extractCitations: one citation per evidence item, numbered from 1
extractCitations(evidence) ==
  [i \in 1..Len(evidence) |->
     [id |-> evidence[i].id, score |-> evidence[i].score, index |-> i]]

RECURSIVE ScoreDivisor(_)
\* the greatest common divisor of the evidence scores
ScoreDivisor(evidence) ==
  IF Len(evidence) = 0 THEN 0
  ELSE GCD(Abs(evidence[1].score), ScoreDivisor(Tail(evidence)))

RECURSIVE WeightedConfidence(_, _)
\* sum of weight * (1 - nullness), weight = score / unit
WeightedConfidence(evidence, unit) ==
  IF Len(evidence) = 0 THEN 0
  ELSE (evidence[1].score \div unit) * (1000 - evidence[1].nullness)
       + WeightedConfidence(Tail(evidence), unit)

\* Variant of calculateEvidenceConfidence that does not weight by the score.
calculateEvidenceConfidenceUnweighted(evidence) ==
  IF Len(evidence) = 0 THEN [num |-> 0, den |-> 1]
  ELSE Fraction(1000 * Len(evidence) - SumField(evidence, "nullness"),
                1000 * Len(evidence))

\* calculateEvidenceConfidence: weightedConfidence / totalWeight when
\* totalWeight > 0, else 0.  The scores are counted in units of their common
\* divisor, which leaves the quotient as it is.
calculateEvidenceConfidence(evidence) ==
  LET unit        == ScoreDivisor(evidence)
      totalWeight == SumField(evidence, "score")
  IN  IF Len(evidence) = 0 THEN [num |-> 0, den |-> 1]
      ELSE IF totalWeight > 0
      THEN Fraction(WeightedConfidence(evidence, unit), 1000 * (totalWeight \div unit))
      ELSE [num |-> 0, den |-> 1]

\* What updateNullness reads of the ranking result.
ResultsOf(rankingResult) ==
  [nullness       |-> rankingResult.nullness,
   confidence     |-> rankingResult.confidence,
   evidence_count |-> Len(rankingResult.evidence)]

\* Variant of answerCalculateConfidence that reads the concept nullness
\* before it records the observation.
answerCalculateConfidenceReadFirst(h, query, evidence, rankingResult, now) ==
  LET concept == answerExtractConcept(query)
      conceptNullness    == IF concept \in DOMAIN h THEN getCurrentNullness(h, concept)
                            ELSE [num |-> DefaultNullness, den |-> 1]
      evidenceConfidence == calculateEvidenceConfidence(evidence)
  IN  [history    |-> PushEntry(h, extractConcept(query),
                                RecordEntry(query, ResultsOf(rankingResult), now)),
       confidence |-> ClampFraction(Times(OneMinus(conceptNullness), evidenceConfidence))]

\* AnswerService.calculateConfidence on the tracker h at time now: the
\* tracker it leaves and the confidence it returns
answerCalculateConfidence(h, query, evidence, rankingResult, now) ==
  LET updated == PushEntry(h, extractConcept(query),
                           RecordEntry(query, ResultsOf(rankingResult), now))
      concept == answerExtractConcept(query)
      conceptNullness    == getCurrentNullness(updated, concept)
      evidenceConfidence == calculateEvidenceConfidence(evidence)
      combinedConfidence == Times(OneMinus(conceptNullness), evidenceConfidence)
  IN  [history    |-> updated,
       confidence |-> ClampFraction(combinedConfidence)]

EmptyAnswerPrefix == "I don't have sufficient evidence to answer the query: \""

EmptyAnswerSuffix == "\". Please try rephrasing your question or providing more context."

\* Variant of composeEmptyAnswer that reports the neutral confidence 0.5.
composeEmptyAnswerNeutral(query) ==
  [answer     |-> <<EmptyAnswerPrefix>> \o query \o <<EmptyAnswerSuffix>>,
   citations  |-> <<>>,
   confidence |-> [num |-> 1, den |-> 2],
   synthesisMethod |-> "empty-response"]

\* composeEmptyAnswer(query); the answer is the template with the query's
\* characters in it
composeEmptyAnswer(query) ==
  [answer     |-> <<EmptyAnswerPrefix>> \o query \o <<EmptyAnswerSuffix>>,
   citations  |-> <<>>,
   confidence |-> [num |-> 0, den |-> 1],
   synthesisMethod |-> "empty-response"]

\* synthesizeAnswer: the introduction of the answer (the lines quoting the
\* evidence and the sources follow it)
synthesizeAnswer(query) ==
  <<"Based on the available evidence, here's what I found regarding \"">>
    \o query \o <<"\":">>

\* composeAnswer(request) on the tracker h at time now: the tracker it leaves
\* and the composition it returns
composeAnswer(h, query, evidence, rankingResult, now) ==
  IF Len(evidence) = 0
  THEN [history |-> h, composition |-> composeEmptyAnswer(query)]
  ELSE LET c == answerCalculateConfidence(h, query, evidence, rankingResult, now)
       IN  [history     |-> c.history,
            composition |-> [answer     |-> synthesizeAnswer(query),
                             citations  |-> extractCitations(evidence),
                             confidence |-> c.confidence,
                             synthesisMethod |-> "template-based"]]

\* largest number of documents in the index of the answer route
MaxDocs == 2

\* similarity of the indexed documents to the query (inner product of
\* normalized vectors, thousandths)
AnswerCos == {-200, 0, 800}

\* contents of the indexed documents, as the keywords they include
AnswerContents == { {"public", "expert"} }

\* k of the answer route: positive, at most 10, default 3
AnswerKValues == {1, 3}

Modes == {"baseline", "volam"}

AnswerIndexContents ==
  UNION { { [i \in 1..n |-> [id |-> i, score |-> f[i][1], keywords |-> f[i][2]]] :
              f \in { g \in [1..n -> AnswerCos \X AnswerContents] :
                        \A i \in 1..(n - 1) : g[i][1] >= g[i + 1][1] } } :
          n \in 0..MaxDocs }

InitAnswer ==
  /\ clock = 0
  /\ history = EmptyMap
  /\ lastCall = NoCall
  /\ index \in AnswerIndexContents
  /\ rankCall = NoRank
  /\ funCall = NoFun
  /\ answerCall = NoAnswer
  /\ pendingCalls = <<>>
  /\ nullnessServices = NoServices
  /\ hookProfile = InitialProfile

\* the ranking the handler asks for: rankWithVOLaM(query, k) with the default
\* weights and profile, or rankBaseline(query, k)
RankingResults(mode, k) ==
  IF mode = "volam"
  THEN rankWithVOLaM(index, k, 600, 300, 100, "default")
  ELSE {rankBaseline(index, k)}

\* GET /answer?query=...&k=...&mode=...
AnswerQuery(query, k, mode) ==
  /\ TotalEntries(history) < MaxHist
  /\ \E rankingResult \in RankingResults(mode, k) :
       LET r == composeAnswer(history, query, rankingResult.evidence, rankingResult, clock)
       IN  /\ history' = r.history
           /\ answerCall' = [op            |-> "composeAnswer",
                             query         |-> query,
                             mode          |-> mode,
                             evidence      |-> rankingResult.evidence,
                             rankingResult |-> rankingResult,
                             timestamp     |-> clock,
                             before        |-> history,
                             composition   |-> r.composition]
  /\ UNCHANGED <<clock, lastCall, index, rankCall, funCall, pendingCalls, nullnessServices, hookProfile>>

NextAnswer ==
  \/ Tick
  \/ \E query \in Queries, k \in AnswerKValues, mode \in Modes :
       AnswerQuery(query, k, mode)

SpecAnswer == InitAnswer /\ [][NextAnswer]_vars

(***************************************************************************)
(* The GET /rank handler (specification SpecRequest).  history is the      *)
(* tracker of the rank route's own NullnessService.                        *)
(***************************************************************************)
\* (alpha, beta, gamma) the request schema accepts, each in [0, 1]: the
\* defaults, the largest and the smallest values (thousandths)
RequestWeights == { <<600, 300, 100>>, <<1000, 1000, 1000>>, <<0, 0, 0>> }

InitRequest ==
  /\ clock = 0
  /\ history = EmptyMap
  /\ lastCall = NoCall
  /\ index \in AnswerIndexContents
  /\ rankCall = NoRank
  /\ funCall = NoFun
  /\ answerCall = NoAnswer
  /\ pendingCalls = <<>>
  /\ nullnessServices = NoServices
  /\ hookProfile = InitialProfile

\* the ranking the handler asks for: rankWithVOLaM(query, k, alpha, beta,
\* gamma) with the default profile, or rankBaseline(query, k)
RequestResults(mode, k, alpha, beta, gamma) ==
  IF mode = "volam"
  THEN rankWithVOLaM(index, k, alpha, beta, gamma, "default")
  ELSE {rankBaseline(index, k)}

\* GET /rank?query=...&mode=...&k=...&alpha=...&beta=...&gamma=...
RankRequest(query, mode, k, alpha, beta, gamma) ==
  /\ TotalEntries(history) < MaxHist
  /\ \E results \in RequestResults(mode, k, alpha, beta, gamma) :
       /\ history' = PushEntry(history, extractConcept(query),
                               RecordEntry(query, ResultsOf(results), clock))
       /\ rankCall' = [results EXCEPT !.alpha = alpha, !.beta = beta, !.gamma = gamma]
       /\ lastCall' = [NoCall EXCEPT !.op = "updateNullness",
                                     !.concept = extractConcept(query),
                                     !.timestamp = clock,
                                     !.before = history]
  /\ UNCHANGED <<clock, index, funCall, answerCall, pendingCalls, nullnessServices, hookProfile>>

NextRequest ==
  \E query \in Queries, mode \in Modes, k \in AnswerKValues, w \in RequestWeights :
     RankRequest(query, mode, k, w[1], w[2], w[3])

SpecRequest == InitRequest /\ [][NextRequest]_vars

(***************************************************************************)
(* Concept extraction as a function of the query text (specification       *)
(* SpecConcept): both services' extractConcept applied to one query.       *)
(***************************************************************************)
\* most words in a query
MaxTokens == 4

\* words of a query and the whitespace between two words
Words == { <<"A">>, <<"a">>, <<"b", "?">> }

Separators == { <<" ">>, <<"\t">>, <<" ", " ">> }

RECURSIVE Interleave(_, _)
\* the words with the separators between them, as one string
Interleave(words, seps) ==
  IF Len(words) = 1 THEN words[1]
  ELSE words[1] \o seps[1] \o Interleave(Tail(words), Tail(seps))

QueryTexts ==
  UNION { { Interleave(ws, ss) : ws \in [1..n -> Words], ss \in [1..(n - 1) -> Separators] } :
          n \in 1..MaxTokens }

\* nullnessService.extractConcept(query) and answerService.extractConcept(query)
\* (one query per behaviour)
ExtractConcept(query) ==
  /\ funCall = NoFun
  /\ funCall' = [fn       |-> "extractConcept",
                 query    |-> query,
                 tracker  |-> extractConcept(query),
                 composer |-> answerExtractConcept(query)]
  /\ UNCHANGED <<clock, history, lastCall, index, rankCall, answerCall, pendingCalls, nullnessServices,
                 hookProfile>>

NextConcept == \E query \in QueryTexts : ExtractConcept(query)

SpecConcept == Init /\ [][NextConcept]_vars

(***************************************************************************)
(* The POST /update_nullness handler (specification SpecUpdate).  history  *)
(* is the tracker of the nullness routes' NullnessService.                 *)
(***************************************************************************)
\* k: z.number().min(0).max(2).default(0.1), lambda: ...default(0.9) (tenths)
DefaultK == 1

DefaultLambda == 9

\* request bodies: given names the numeric fields the body contains (a field
\* that is not given is 0 here and is not read)
RequestBodies ==
  { [concept |-> c, action |-> a, evidence_strength |-> s, k |-> k, lambda |-> l,
     given |-> ({"evidence_strength" : x \in {s} \ {0}}
                  \cup {"k" : x \in {k} \ {0}} \cup {"lambda" : x \in {l} \ {0}})] :
      c \in Concepts, a \in {"support", "refute", "delete"},
      s \in {0, 5, 11}, k \in {0, 21}, l \in {0, 11} }

\* Variant of updateNullnessSchema that does not check evidence_strength's range.
updateNullnessSchemaNoStrengthRange(body) ==
  LET k      == IF "k" \in body.given THEN body.k ELSE DefaultK
      lambda == IF "lambda" \in body.given THEN body.lambda ELSE DefaultLambda
  IN  [success |-> /\ Len(body.concept) >= 1 /\ Len(body.concept) <= 100
                   /\ body.action \in {"support", "refute"}
                   /\ "evidence_strength" \in body.given
                   /\ 0 <= k /\ k <= 20
                   /\ 0 <= lambda /\ lambda <= 10,
       k       |-> k,
       lambda  |-> lambda]

\* updateNullnessSchema.parse(request.body): whether it accepts the body, and
\* k and lambda with their defaults filled in
updateNullnessSchema(body) ==
  LET k      == IF "k" \in body.given THEN body.k ELSE DefaultK
      lambda == IF "lambda" \in body.given THEN body.lambda ELSE DefaultLambda
  IN  [success |-> /\ Len(body.concept) >= 1 /\ Len(body.concept) <= 100
                   /\ body.action \in {"support", "refute"}
                   /\ "evidence_strength" \in body.given
                   /\ 0 <= body.evidence_strength /\ body.evidence_strength <= 10
                   /\ 0 <= k /\ k <= 20
                   /\ 0 <= lambda /\ lambda <= 10,
       k       |-> k,
       lambda  |-> lambda]

\* POST /update_nullness with the given body: the update and the reply 200,
\* or the reply 400 of the catch block
PostUpdateNullness(body) ==
  LET params == updateNullnessSchema(body)
  IN  IF params.success
      THEN /\ TotalEntries(history) < MaxHist
           /\ LET r == ExplicitUpdate(history, body.concept, body.action,
                                      body.evidence_strength, params.k, params.lambda, clock)
              IN  /\ history' = PushEntry(history, body.concept, r.entry)
                  /\ lastCall' = [op |-> "updateNullnessExplicit", concept |-> body.concept,
                                  action |-> body.action,
                                  evidenceStrength |-> body.evidence_strength,
                                  k |-> params.k, lambda |-> params.lambda,
                                  decayFactor |-> r.decayFactor,
                                  evidenceImpact |-> r.evidenceImpact,
                                  rawNullness |-> r.rawNullness,
                                  oldNullness |-> r.oldNullness,
                                  newNullness |-> r.newNullness,
                                  deltaNullness |-> r.deltaNullness,
                                  timestamp |-> r.timestamp,
                                  before |-> history]
                  /\ funCall' = [fn |-> "POST /update_nullness", body |-> body,
                                 status |-> 200, before |-> history]
           /\ UNCHANGED <<clock, index, rankCall, answerCall, pendingCalls, nullnessServices, hookProfile>>
      ELSE /\ funCall' = [fn |-> "POST /update_nullness", body |-> body,
                          status |-> 400, before |-> history]
           /\ UNCHANGED <<clock, history, lastCall, index, rankCall, answerCall, pendingCalls, nullnessServices,
                 hookProfile>>

NextUpdate ==
  \/ Tick
  \/ \E body \in RequestBodies : PostUpdateNullness(body)

SpecUpdate == Init /\ [][NextUpdate]_vars

(***************************************************************************)
(* Calls of the NullnessService that overlap (specification                *)
(* SpecConcurrent).  updateNullnessExplicit suspends once, at              *)
(* `await this.getNullnessHistory(concept)`; the suspended calls resume in *)
(* the order they were made.  updateNullness has no suspension point.      *)
(***************************************************************************)
\* The array a suspended call holds when it resumes on the tracker h: the
\* concept's own array, with what was pushed since, if the concept had one
\* when the call was made, else the empty array made for the call
\* (`this.history.get(concept) || []`).
HistoryArray(h, call) ==
  IF call.live THEN h[call.concept] ELSE <<>>

\* Variant of PushEntry that appends the entry to every concept's history.
PushEntryEverywhere(h, concept, entry) ==
  [c \in DOMAIN h \cup {concept} |->
     IF c \in DOMAIN h THEN Append(h[c], entry) ELSE <<entry>>]

\* PushEntry as the resumed call does it
PushResumed(h, concept, entry) == PushEntry(h, concept, entry)

\* updateNullnessExplicit(concept, action, 0.5, 0.4, 1.0) up to its await
BeginExplicit(concept, action) ==
  /\ TotalEntries(history) + Len(pendingCalls) < MaxHist
  /\ pendingCalls' = Append(pendingCalls,
                            [concept |-> concept, action |-> action,
                             evidenceStrength |-> 5, k |-> 4, lambda |-> 10,
                             live   |-> concept \in DOMAIN history,
                             atCall |-> history])
  /\ UNCHANGED <<clock, history, lastCall, index, rankCall, funCall, answerCall, nullnessServices,
                 hookProfile>>

\* the oldest suspended updateNullnessExplicit runs from its await to its return
ResumeExplicit ==
  /\ Len(pendingCalls) > 0
  /\ LET call == Head(pendingCalls)
         r    == ExplicitUpdateFrom(HistoryArray(history, call), call.concept, call.action,
                                    call.evidenceStrength, call.k, call.lambda, clock)
     IN  /\ history' = PushResumed(history, call.concept, r.entry)
         /\ lastCall' = [op |-> "updateNullnessExplicit", concept |-> call.concept,
                         action |-> call.action, evidenceStrength |-> call.evidenceStrength,
                         k |-> call.k, lambda |-> call.lambda,
                         decayFactor |-> r.decayFactor,
                         evidenceImpact |-> r.evidenceImpact,
                         rawNullness |-> r.rawNullness,
                         oldNullness |-> r.oldNullness,
                         newNullness |-> r.newNullness,
                         deltaNullness |-> r.deltaNullness,
                         timestamp |-> r.timestamp,
                         before |-> history,
                         atCall |-> call.atCall]
  /\ pendingCalls' = Tail(pendingCalls)
  /\ UNCHANGED <<clock, index, rankCall, funCall, answerCall, nullnessServices, hookProfile>>

\* updateNullness(query, results) made while calls may be suspended
RecordBetween(query, results) ==
  /\ TotalEntries(history) + Len(pendingCalls) < MaxHist
  /\ updateNullness(query, results)

NextConcurrent ==
  \/ Tick
  \/ \E c \in Concepts, a \in Actions : BeginExplicit(c, a)
  \/ ResumeExplicit
  \/ \E q \in Queries, res \in ObservedResults : RecordBetween(q, res)

SpecConcurrent == Init /\ [][NextConcurrent]_vars

(***************************************************************************)
(* The routes of one server process, each with the NullnessService its     *)
(* module constructs (specification SpecServer): rankRoutes, nullnessRoutes *)
(* and the AnswerService of answerRoutes.                                  *)
(***************************************************************************)
\* entries held by the three trackers together
ServerEntries ==
  TotalEntries(nullnessServices.rank) + TotalEntries(nullnessServices.nullness)
    + TotalEntries(nullnessServices.answer)

InitServer ==
  /\ clock = 0
  /\ history = EmptyMap
  /\ lastCall = NoCall
  /\ index \in AnswerIndexContents
  /\ rankCall = NoRank
  /\ funCall = NoFun
  /\ answerCall = NoAnswer
  /\ pendingCalls = <<>>
  /\ nullnessServices = NoServices
  /\ hookProfile = InitialProfile

\* GET /rank: the ranking, then nullnessService.updateNullness(query, results)
\* on the rank route's tracker
ServerRank(query, mode, k) ==
  /\ ServerEntries < MaxHist
  /\ \E results \in RequestResults(mode, k, 600, 300, 100) :
       /\ nullnessServices' =
             [nullnessServices EXCEPT !.rank =
                PushEntry(@, extractConcept(query),
                          RecordEntry(query, ResultsOf(results), clock))]
       /\ funCall' = [fn |-> "GET /rank", concept |-> extractConcept(query),
                      entries |-> <<>>, conceptNullness |-> results.nullness]
  /\ UNCHANGED <<clock, history, lastCall, index, rankCall, answerCall, pendingCalls, hookProfile>>

\* GET /answer: the ranking, then answerService.composeAnswer on the
\* AnswerService's tracker
ServerAnswer(query, mode, k) ==
  /\ ServerEntries < MaxHist
  /\ \E rankingResult \in RankingResults(mode, k) :
       LET r == composeAnswer(nullnessServices.answer, query, rankingResult.evidence,
                              rankingResult, clock)
       IN  /\ nullnessServices' = [nullnessServices EXCEPT !.answer = r.history]
           /\ funCall' = [fn |-> "GET /answer", concept |-> extractConcept(query),
                          entries |-> <<>>,
                          conceptNullness |->
                             IF Len(rankingResult.evidence) = 0
                             THEN [num |-> 0, den |-> 1]
                             ELSE getCurrentNullness(r.history, answerExtractConcept(query))]
  /\ UNCHANGED <<clock, history, lastCall, index, rankCall, answerCall, pendingCalls, hookProfile>>

\* POST /update_nullness with a valid body (strength 0.5, k 0.4, lambda 1.0)
\* on the nullness routes' tracker
ServerUpdate(concept, action) ==
  /\ ServerEntries < MaxHist
  /\ LET r == ExplicitUpdate(nullnessServices.nullness, concept, action, 5, 4, 10, clock)
     IN  /\ nullnessServices' =
               [nullnessServices EXCEPT !.nullness = PushEntry(@, concept, r.entry)]
         /\ funCall' = [fn |-> "POST /update_nullness", concept |-> concept,
                        entries |-> <<>>,
                        conceptNullness |-> [num |-> r.oldNullness, den |-> 1]]
  /\ UNCHANGED <<clock, history, lastCall, index, rankCall, answerCall, pendingCalls, hookProfile>>

\* GET /nullness/history/:concept on the nullness routes' tracker: the
\* array the handler reads (metadata.totalEntries is its length)
ServerHistory(concept) ==
  /\ funCall' = [fn |-> "GET /nullness/history", concept |-> concept,
                 entries |-> getNullnessHistory(nullnessServices.nullness, concept),
                 conceptNullness |-> [num |-> 0, den |-> 1]]
  /\ UNCHANGED <<clock, history, lastCall, index, rankCall, answerCall, pendingCalls,
                 nullnessServices,
                 hookProfile>>

\* concepts of the requests: those of the queries
ServerConcepts == { extractConcept(q) : q \in Queries }

NextServer ==
  \/ \E query \in Queries, mode \in Modes, k \in AnswerKValues : ServerRank(query, mode, k)
  \/ \E query \in Queries, mode \in Modes, k \in AnswerKValues : ServerAnswer(query, mode, k)
  \/ \E c \in ServerConcepts, a \in Actions : ServerUpdate(c, a)
  \/ \E c \in ServerConcepts : ServerHistory(c)

SpecServer == InitServer /\ [][NextServer]_vars

(***************************************************************************)
(* composeAnswer on trackers that already hold entries (specification      *)
(* SpecCompose).                                                           *)
(***************************************************************************)
\* an entry as updateNullnessExplicit appends it, nullness as a fraction
ExplicitEntry(concept, nullness) ==
  [concept        |-> concept,
   timestamp      |-> 0,
   nullness       |-> [num |-> nullness, den |-> 1],
   confidence     |-> [num |-> 1000 - nullness, den |-> 1],
   evidence_count |-> 1]

\* tracker states before the call: no history, and the concept a_b after a
\* support (0.5 to 0.3) or after two refutes (0.5 to 0.7 to 0.9)
PriorTrackers ==
  { EmptyMap,
    <<"a", "_", "b">> :> <<ExplicitEntry(<<"a", "_", "b">>, 300)>>,
    <<"a", "_", "b">> :> <<ExplicitEntry(<<"a", "_", "b">>, 700),
                          ExplicitEntry(<<"a", "_", "b">>, 900)>> }

InitCompose ==
  /\ clock = 0
  /\ history \in PriorTrackers
  /\ lastCall = NoCall
  /\ index \in AnswerIndexContents
  /\ rankCall = NoRank
  /\ funCall = NoFun
  /\ answerCall = NoAnswer
  /\ pendingCalls = <<>>
  /\ nullnessServices = NoServices
  /\ hookProfile = InitialProfile

\* composeAnswer({query, evidence, mode, rankingResult}) with the result of a
\* ranking (one call per behaviour)
ComposeOnPrior(query, k, mode) ==
  /\ answerCall = NoAnswer
  /\ \E rankingResult \in RankingResults(mode, k) :
       LET r == composeAnswer(history, query, rankingResult.evidence, rankingResult, clock)
       IN  /\ history' = r.history
           /\ answerCall' = [op            |-> "composeAnswer",
                             query         |-> query,
                             mode          |-> mode,
                             evidence      |-> rankingResult.evidence,
                             rankingResult |-> rankingResult,
                             timestamp     |-> clock,
                             before        |-> history,
                             composition   |-> r.composition]
  /\ UNCHANGED <<clock, lastCall, index, rankCall, funCall, pendingCalls, nullnessServices, hookProfile>>

NextCompose ==
  \E query \in Queries, k \in AnswerKValues, mode \in Modes : ComposeOnPrior(query, k, mode)

SpecCompose == InitCompose /\ [][NextCompose]_vars

(***************************************************************************)
(* The empathy-profile hook as a state machine (specification SpecHook):   *)
(* hookProfile is the hook's profile, a weight being the fraction num/den. *)
(***************************************************************************)
\* most calls of the hook's functions in a behaviour
MaxUpdates == 3

RECURSIVE CommonDen(_, _)
\* a common denominator of the weights of the stakeholders in keys
CommonDen(weights, keys) ==
  IF keys = {} THEN 1
  ELSE LET key  == CHOOSE x \in keys : TRUE
           rest == CommonDen(weights, keys \ {key})
       IN  (weights[key].den \div GCD(weights[key].den, rest)) * rest

RECURSIVE CommonFactor(_, _)
\* the greatest common divisor of the integer weights of the stakeholders in keys
CommonFactor(ints, keys) ==
  IF keys = {} THEN 0
  ELSE LET key == CHOOSE x \in keys : TRUE
       IN  GCD(ints[key], CommonFactor(ints, keys \ {key}))

\* The weights as whole numbers of one unit (dividing every weight and the
\* total by the same unit leaves weight / total as it is).
InUnits(weights) ==
  LET den  == CommonDen(weights, DOMAIN weights)
      ints == [st \in DOMAIN weights |-> weights[st].num * (den \div weights[st].den)]
      unit == Max(1, CommonFactor(ints, DOMAIN ints))
  IN  [st \in DOMAIN weights |-> ints[st] \div unit]

\* { ...prev, [stakeholder]: weight } (weight in thousandths)
WithStakeholder(prev, stakeholder, weight) ==
  [st \in DOMAIN prev \cup {stakeholder} |->
     IF st = stakeholder THEN [num |-> weight, den |-> 1000] ELSE prev[st]]

\* as fractions of thousandths
AsWeights(newProfile) ==
  [st \in DOMAIN newProfile |-> [num |-> newProfile[st], den |-> 1000]]

\* stakeholders and non-negative weights of updateStakeholder (thousandths)
HookStakeholders == {"experts", "general_public", "youth"}

HookWeights == {0, 500, 2000}

\* profiles handed to setFullProfile: all zero, without stakeholder, one
\* stakeholder, and weights that do not sum to 1
HookProfiles ==
  { [general_public |-> 0, experts |-> 0],
    [st \in {} |-> 0],
    [experts |-> 1000],
    [experts |-> 600, general_public |-> 300, policymakers |-> 200,
     affected_communities |-> 100] }

NoHookCall == [fn |-> "none", calls |-> 0]

InitHook ==
  /\ clock = 0
  /\ history = EmptyMap
  /\ lastCall = NoCall
  /\ index = <<>>
  /\ rankCall = NoRank
  /\ funCall = NoHookCall
  /\ answerCall = NoAnswer
  /\ pendingCalls = <<>>
  /\ nullnessServices = NoServices
  /\ hookProfile = InitialProfile

\* updateStakeholder(stakeholder, weight)
updateStakeholder(stakeholder, weight) ==
  /\ funCall.calls < MaxUpdates
  /\ hookProfile' = normalizeProfile(InUnits(WithStakeholder(hookProfile, stakeholder, weight)))
  /\ funCall' = [fn |-> "updateStakeholder", calls |-> funCall.calls + 1,
                 prev |-> hookProfile, stakeholder |-> stakeholder, weight |-> weight]
  /\ UNCHANGED <<clock, history, lastCall, index, rankCall, answerCall, pendingCalls,
                 nullnessServices>>

\* resetProfile()
resetProfile ==
  /\ funCall.calls < MaxUpdates
  /\ hookProfile' = AsWeights(DEFAULT_PROFILE)
  /\ funCall' = [fn |-> "resetProfile", calls |-> funCall.calls + 1, prev |-> hookProfile,
                 stakeholder |-> "none", weight |-> 0]
  /\ UNCHANGED <<clock, history, lastCall, index, rankCall, answerCall, pendingCalls,
                 nullnessServices>>

\* setFullProfile(newProfile)
setFullProfile(newProfile) ==
  /\ funCall.calls < MaxUpdates
  /\ hookProfile' = normalizeProfile(InUnits(AsWeights(newProfile)))
  /\ funCall' = [fn |-> "setFullProfile", calls |-> funCall.calls + 1, prev |-> hookProfile,
                 stakeholder |-> "none", weight |-> 0]
  /\ UNCHANGED <<clock, history, lastCall, index, rankCall, answerCall, pendingCalls,
                 nullnessServices>>

NextHook ==
  \/ \E st \in HookStakeholders, w \in HookWeights : updateStakeholder(st, w)
  \/ resetProfile
  \/ \E newProfile \in HookProfiles : setFullProfile(newProfile)

SpecHook == InitHook /\ [][NextHook]_vars

(***************************************************************************)
(* Properties of the NullnessService (specification Spec).                 *)
(***************************************************************************)
IsExplicit == lastCall.op = "updateNullnessExplicit"

IsRecord == lastCall.op = "updateNullness"

\* The entry appended by the last updateNullness / updateNullnessExplicit call.
AppendedEntry == history[lastCall.concept][Len(history[lastCall.concept])]

\* The history of the last call's concept as it was before the call.
HistoryBefore == getNullnessHistory(lastCall.before, lastCall.concept)

\* The result the last explicit update would have had with other parameters.
Alternative(action, evidenceStrength, k, lambda) ==
  ExplicitUpdate(lastCall.before, lastCall.concept, action, evidenceStrength, k,
                 lambda, lastCall.timestamp)

Unclamped(r) == r.rawNullness = r.newNullness

Opposite(action) == IF action = "support" THEN "refute" ELSE "support"

\* C5: an explicit update never produces a nullness outside [0,1]: the new
\* value it returns and the value of the entry it appends are in [0,1].
C5_ExplicitUpdateInBounds ==
  IsExplicit =>
    /\ lastCall.newNullness >= 0 /\ lastCall.newNullness <= 1000
    /\ AppendedEntry.nullness >= 0 /\ AppendedEntry.nullness <= 1000

C5_Witness ==
  /\ IsExplicit
  /\ lastCall.rawNullness > 1000
  /\ lastCall.newNullness = 1000

\* C6: new = clamp(old - impact) for support and clamp(old + impact) for
\* refute with impact = k * evidenceStrength * decay; the appended entry holds
\* new, and the returned delta is new - old (the change after clamping).
C6_ClampedUpdateAndDelta ==
  IsExplicit =>
    LET impact == lastCall.k * lastCall.evidenceStrength * lastCall.decayFactor
        target == IF lastCall.action = "support"
                  THEN lastCall.oldNullness - impact
                  ELSE lastCall.oldNullness + impact
        new    == IF target < 0 THEN 0 ELSE IF target > 1000 THEN 1000 ELSE target
    IN  /\ lastCall.newNullness = new
        /\ AppendedEntry.nullness = new
        /\ lastCall.deltaNullness = new - lastCall.oldNullness

\* old 0.1, refute, k 2.0, evidenceStrength 1.0, lambda 1.0: new 1.0, delta 0.9
C6_Witness ==
  /\ IsExplicit
  /\ lastCall.oldNullness = 100 /\ lastCall.action = "refute"
  /\ lastCall.k = 20 /\ lastCall.evidenceStrength = 10 /\ lastCall.lambda = 10
  /\ lastCall.newNullness = 1000 /\ lastCall.deltaNullness = 900

\* C7: from the same starting nullness and with the same evidenceStrength, k
\* and lambda, support and refute give deltas of equal magnitude and opposite
\* sign whenever neither result is clamped.
C7_Symmetry ==
  IsExplicit =>
    LET opp == Alternative(Opposite(lastCall.action), lastCall.evidenceStrength,
                           lastCall.k, lastCall.lambda)
    IN  (Unclamped(lastCall) /\ Unclamped(opp)) =>
          /\ opp.deltaNullness = 0 - lastCall.deltaNullness
          /\ opp.oldNullness = lastCall.oldNullness

C7_Witness ==
  /\ IsExplicit
  /\ lastCall.deltaNullness # 0
  /\ Unclamped(lastCall)
  /\ Unclamped(Alternative(Opposite(lastCall.action), lastCall.evidenceStrength,
                           lastCall.k, lastCall.lambda))

\* C8 as stated: without clamping |delta| strictly increases with
\* evidenceStrength, strictly increases with k, and strictly decreases when
\* lambda is lowered, all else fixed.
C8_StrictMonotonicity ==
  (IsExplicit /\ Unclamped(lastCall)) =>
    /\ \A s2 \in Strengths :
         LET alt == Alternative(lastCall.action, s2, lastCall.k, lastCall.lambda)
         IN  (s2 > lastCall.evidenceStrength /\ Unclamped(alt)) =>
               Abs(alt.deltaNullness) > Abs(lastCall.deltaNullness)
    /\ \A k2 \in KFactors :
         LET alt == Alternative(lastCall.action, lastCall.evidenceStrength, k2, lastCall.lambda)
         IN  (k2 > lastCall.k /\ Unclamped(alt)) =>
               Abs(alt.deltaNullness) > Abs(lastCall.deltaNullness)
    /\ \A l2 \in Lambdas :
         LET alt == Alternative(lastCall.action, lastCall.evidenceStrength, lastCall.k, l2)
         IN  (l2 < lastCall.lambda /\ Unclamped(alt)) =>
               Abs(alt.deltaNullness) < Abs(lastCall.deltaNullness)

\* C8 amended: the monotonicity is strict when the other two factors of the
\* impact are positive (with a zero factor the impact is 0 whatever the third).
C8_StrictMonotonicityPositiveFactors ==
  (IsExplicit /\ Unclamped(lastCall)) =>
    /\ \A s2 \in Strengths :
         LET alt == Alternative(lastCall.action, s2, lastCall.k, lastCall.lambda)
         IN  (s2 > lastCall.evidenceStrength /\ Unclamped(alt)
              /\ lastCall.k > 0 /\ lastCall.lambda > 0) =>
               Abs(alt.deltaNullness) > Abs(lastCall.deltaNullness)
    /\ \A k2 \in KFactors :
         LET alt == Alternative(lastCall.action, lastCall.evidenceStrength, k2, lastCall.lambda)
         IN  (k2 > lastCall.k /\ Unclamped(alt)
              /\ lastCall.evidenceStrength > 0 /\ lastCall.lambda > 0) =>
               Abs(alt.deltaNullness) > Abs(lastCall.deltaNullness)
    /\ \A l2 \in Lambdas :
         LET alt == Alternative(lastCall.action, lastCall.evidenceStrength, lastCall.k, l2)
         IN  (l2 < lastCall.lambda /\ Unclamped(alt)
              /\ lastCall.k > 0 /\ lastCall.evidenceStrength > 0) =>
               Abs(alt.deltaNullness) < Abs(lastCall.deltaNullness)

C8_Witness ==
  /\ IsExplicit /\ Unclamped(lastCall)
  /\ lastCall.k > 0 /\ lastCall.evidenceStrength > 0 /\ lastCall.lambda > 0
  /\ \E s2 \in Strengths :
       /\ s2 > lastCall.evidenceStrength
       /\ Unclamped(Alternative(lastCall.action, s2, lastCall.k, lastCall.lambda))
  /\ \E k2 \in KFactors :
       /\ k2 > lastCall.k
       /\ Unclamped(Alternative(lastCall.action, lastCall.evidenceStrength, k2, lastCall.lambda))
  /\ \E l2 \in Lambdas :
       /\ l2 < lastCall.lambda
       /\ Unclamped(Alternative(lastCall.action, lastCall.evidenceStrength, lastCall.k, l2))

\* C9: the decay factor is lambda to the power of the time elapsed since the
\* concept's previous entry (in clock ticks), so that an update made at the
\* instant of the previous entry (timeDelta = 0) has impact k * evidenceStrength
\* whatever lambda is.  In thousandths: impact * 10^dt = 10 * k * s * lambda^dt.
C9_DecayByElapsedTime ==
  (IsExplicit /\ Len(HistoryBefore) > 0) =>
    LET dt == lastCall.timestamp - HistoryBefore[Len(HistoryBefore)].timestamp
    IN  lastCall.evidenceImpact * Pow(10, dt) =
          10 * lastCall.k * lastCall.evidenceStrength * Pow(lastCall.lambda, dt)

\* C10: the current value of a concept is the nullness of the last entry of
\* its history, 0.5 without history; an explicit update starts from that value.
C10_CurrentIsLastEntry ==
  /\ lastCall.op = "getCurrentNullness" =>
       lastCall.newNullness =
         (IF lastCall.concept \in DOMAIN history
          THEN history[lastCall.concept][Len(history[lastCall.concept])].nullness
          ELSE 500)
  /\ IsExplicit =>
       lastCall.oldNullness =
         (IF Len(history[lastCall.concept]) = 1 THEN 500
          ELSE history[lastCall.concept][Len(history[lastCall.concept]) - 1].nullness)
  /\ (IsExplicit \/ IsRecord) =>
       /\ AppendedEntry.nullness = lastCall.newNullness
       /\ getCurrentNullness(history, lastCall.concept) = lastCall.newNullness

\* a read of a concept whose two entries (a record, then an explicit update)
\* differ
C10_Witness ==
  /\ lastCall.op = "getCurrentNullness"
  /\ lastCall.concept \in DOMAIN history
  /\ Len(history[lastCall.concept]) = 2
  /\ history[lastCall.concept][1].evidence_count = 0
  /\ history[lastCall.concept][2].nullness # history[lastCall.concept][1].nullness

IsWrite(call) == call.op \in {"updateNullness", "updateNullnessExplicit"}

IsRead(call) == call.op \in {"getCurrentNullness", "calculateDeltaNullness",
                             "getNullnessHistory"}

\* h2 is h1 with exactly one entry appended at the end of concept's history
AppendsOneEntry(h1, h2, concept) ==
  LET old == getNullnessHistory(h1, concept)
  IN  /\ DOMAIN h2 = DOMAIN h1 \cup {concept}
      /\ Len(h2[concept]) = Len(old) + 1
      /\ SubSeq(h2[concept], 1, Len(old)) = old
      /\ \A c \in DOMAIN h1 \ {concept} : h2[c] = h1[c]

\* C11: the history is append-only: a record or an explicit update appends
\* exactly one entry at the end of the history of exactly one concept and
\* changes nothing else, the reads (current, delta, history) change no
\* history, and no other step changes a history.
C11_AppendOnly ==
  [][ /\ (lastCall' # lastCall /\ IsWrite(lastCall'))
          => AppendsOneEntry(history, history', lastCall'.concept)
      /\ (lastCall' # lastCall /\ IsRead(lastCall')) => history' = history
      /\ (lastCall' = lastCall) => history' = history ]_vars

\* C11 witness: a record or an explicit update appended a second entry to a
\* concept's history behind the entry that was there.
C11_Witness ==
  /\ IsWrite(lastCall)
  /\ Len(HistoryBefore) = 1
  /\ Len(history[lastCall.concept]) = 2
  /\ history[lastCall.concept][1] = HistoryBefore[1]
  /\ history[lastCall.concept][2].timestamp >= HistoryBefore[1].timestamp

\* C12: an observation record stores only nullness values in [0,1]: whatever
\* nullness the ranking result carries, the appended entry's nullness, and so
\* the current value of the concept afterwards, lies in [0,1].
C12_RecordedNullnessInBounds ==
  IsRecord =>
    /\ AppendedEntry.nullness >= 0 /\ AppendedEntry.nullness <= 1000
    /\ getCurrentNullness(history, lastCall.concept) >= 0
    /\ getCurrentNullness(history, lastCall.concept) <= 1000

(***************************************************************************)
(* Properties of the RankingService (specification SpecRank).             *)
(***************************************************************************)
IsVolam == rankCall.mode = "volam"

IsBaseline == rankCall.mode = "baseline"

HasRanked == IsVolam \/ IsBaseline

\* the candidate of the last ranking an evidence item was made from
CandidateOf(e) == CHOOSE c \in {rankCall.candidates[i] : i \in DOMAIN rankCall.candidates} :
                    c.id = e.id

\* C1: in VOLaM mode every returned evidence item has score =
\* alpha*cosineScore + beta*(1 - nullness) + gamma*empathyFit, computed from
\* that item's own cosineScore (its similarity), nullness (clamp(1 -
\* similarity)) and empathyFit (the fit of its content to the profile); for
\* cosine 0.85, nullness 0.15, empathyFit 0.9 and weights 0.6, 0.3, 0.1 the
\* score is 0.855.
C1_VolamScoreFormula ==
  IsVolam =>
    /\ calculateVOLaMScore(850, 150, 10800, 600, 300, 100) = 10260000
    /\ \A i \in DOMAIN rankCall.evidence :
          LET e == rankCall.evidence[i]
              c == CandidateOf(e)
          IN  /\ e.cosineScore = c.score
              /\ e.nullness = Max(0, Min(1000, 1000 - c.score))
              /\ e.empathyFit = calculateEmpathyFit(extractContentTags(c.keywords),
                                                    rankCall.empathyProfile)
              /\ e.score = 12 * rankCall.alpha * e.cosineScore
                           + 12 * rankCall.beta * (1000 - e.nullness)
                           + rankCall.gamma * e.empathyFit

\* C1 witness: a VOLaM ranking returned two items of different empathy fit,
\* one of cosine 0.838, nullness 0.162 and fit 0.55 scored 0.8092 with the
\* default weights.
C1_Witness ==
  /\ IsVolam
  /\ Len(rankCall.evidence) >= 2
  /\ rankCall.alpha = 600 /\ rankCall.beta = 300 /\ rankCall.gamma = 100
  /\ \E i, j \in DOMAIN rankCall.evidence :
        /\ rankCall.evidence[i].cosineScore = 838
        /\ rankCall.evidence[i].nullness = 162
        /\ rankCall.evidence[i].empathyFit = 6600
        /\ rankCall.evidence[i].score = 9710400
        /\ rankCall.evidence[j].empathyFit # rankCall.evidence[i].empathyFit

\* C2: in baseline and in VOLaM mode the returned evidence list is
\* non-increasing in score: each item's score is >= the score of the item
\* after it.
C2_NonIncreasingScore ==
  HasRanked =>
    \A i \in 1..(Len(rankCall.evidence) - 1) :
       rankCall.evidence[i].score >= rankCall.evidence[i + 1].score

\* C3: in the list returned by VOLaM ranking, every pair of items whose
\* scores differ by less than 0.001 has the item of higher cosineScore
\* before the item of lower cosineScore.
C3_NearTiesByCosine ==
  IsVolam =>
    \A i, j \in DOMAIN rankCall.evidence :
       ( /\ i < j
         /\ Abs(rankCall.evidence[i].score - rankCall.evidence[j].score) < 12000 )
       => rankCall.evidence[i].cosineScore >= rankCall.evidence[j].cosineScore

\* C4: baseline requests exactly k candidates and VOLaM max(2k, 10); the
\* returned list has min(k, number of candidates) items and, in VOLaM mode,
\* is the first k items of the whole scored candidate set as sorted.
C4_OverFetchSortThenTruncate ==
  /\ IsBaseline =>
       /\ rankCall.requested = rankCall.k
       /\ rankCall.candidates = Take(index, rankCall.k)
       /\ Len(rankCall.evidence) = Min(rankCall.k, Len(rankCall.candidates))
  /\ IsVolam =>
       /\ rankCall.requested = Max(2 * rankCall.k, 10)
       /\ rankCall.candidates = Take(index, Max(2 * rankCall.k, 10))
       /\ Len(rankCall.evidence) = Min(rankCall.k, Len(rankCall.candidates))
       /\ \E sorted \in SortOutcomes(ScoredCandidates(rankCall.candidates,
                                       rankCall.alpha, rankCall.beta, rankCall.gamma,
                                       rankCall.empathyProfile)) :
             rankCall.evidence = Take(sorted, rankCall.k)

\* C4 witness: a VOLaM ranking with more candidates than k returned k items,
\* the first of which is not among the first k candidates of the index.
C4_Witness ==
  /\ IsVolam
  /\ Len(rankCall.candidates) > rankCall.k
  /\ Len(rankCall.evidence) = rankCall.k
  /\ rankCall.evidence[1].id > rankCall.k

(***************************************************************************)
(* Properties of calculateEmpathyFit (specification SpecFit).              *)
(***************************************************************************)
IsFit == funCall.fn = "calculateEmpathyFit"

\* the weight map the claimed resolution yields: the named profile when it is
\* loaded, the profile named "default" otherwise
ClaimedWeights == IF funCall.profileName \in DOMAIN funCall.profiles
                  THEN funCall.profiles[funCall.profileName]
                  ELSE funCall.profiles["default"]

\* the positions of the tag list whose stakeholder is a key of the weight map
KeyMatches(weights, stakeholders) ==
  {i \in DOMAIN stakeholders : NormalizeStakeholder(stakeholders[i]) \in DOMAIN weights}

RECURSIVE SumAt(_, _, _)
SumAt(weights, stakeholders, positions) ==
  IF positions = {} THEN 0
  ELSE LET i == CHOOSE x \in positions : TRUE
       IN  weights[NormalizeStakeholder(stakeholders[i])]
           + SumAt(weights, stakeholders, positions \ {i})

C15_MatchedByKey ==
  ( /\ IsFit
    /\ funCall.profileName \notin InheritedKeys
    /\ KeyMatches(ClaimedWeights, funCall.stakeholders) # {} )
  => LET matched == KeyMatches(ClaimedWeights, funCall.stakeholders)
         matchedCount == Cardinality(matched)
         total == SumAt(ClaimedWeights, funCall.stakeholders, matched)
     IN  /\ ~funCall.result.raised
         /\ funCall.result.value * matchedCount =
              Min(12 * total + Min(matchedCount * 1200, 3600) * matchedCount,
                  12000 * matchedCount)
         /\ funCall.result.value >= 0 /\ funCall.result.value <= 12000

\* C16: for every profile name that is not a loaded profile, and every tag
\* list, calculateEmpathyFit does not raise and returns what it returns for
\* the profile named "default" on the same tags.
C16_UnknownProfileFallsBack ==
  (IsFit /\ funCall.profileName \notin DOMAIN funCall.profiles)
  => /\ ~funCall.result.raised
     /\ funCall.result =
          calculateEmpathyFitIn(funCall.profiles, funCall.stakeholders, "default")

(***************************************************************************)
(* Properties of normalizeProfile (specification SpecProfile).             *)
(***************************************************************************)
IsNormalize == funCall.fn = "normalizeProfile"

RECURSIVE SumNum(_, _)
SumNum(weights, keys) ==
  IF keys = {} THEN 0
  ELSE LET key == CHOOSE x \in keys : TRUE
       IN  weights[key].num + SumNum(weights, keys \ {key})

\* the weights of a normalized profile have one denominator d, so they sum
\* to 1 exactly when their numerators sum to d
SumsToOne(weights) ==
  \E d \in {weights[st].den : st \in DOMAIN weights} :
     /\ \A st \in DOMAIN weights : weights[st].den = d
     /\ SumNum(weights, DOMAIN weights) = d

\* the fraction w equals n / d
IsFraction(w, n, d) == w.num * d = n * w.den

\* C18: normalization divides every weight by the sum of all weights, so for
\* non-negative weights of non-zero sum the result sums to 1.0 (0.6, 0.3, 0.2,
\* 0.1 become 1/2, 1/4, 1/6, 1/12); when the sum is 0 the result is the
\* default profile 0.4, 0.3, 0.2, 0.1.
C18_NormalizeProfile ==
  IsNormalize =>
    LET profile == funCall.profile
        result  == funCall.result
        total   == profile.general_public + profile.experts
                   + profile.policymakers + profile.affected_communities
    IN  /\ total # 0 =>
             /\ DOMAIN result = DOMAIN profile
             /\ \A st \in DOMAIN profile : IsFraction(result[st], profile[st], total)
             /\ SumsToOne(result)
        /\ total = 0 =>
             /\ IsFraction(result.general_public, 4, 10)
             /\ IsFraction(result.experts, 3, 10)
             /\ IsFraction(result.policymakers, 2, 10)
             /\ IsFraction(result.affected_communities, 1, 10)
             /\ DOMAIN result = {"general_public", "experts", "policymakers",
                                 "affected_communities"}
        /\ ( /\ profile.general_public = 600 /\ profile.experts = 300
             /\ profile.policymakers = 200 /\ profile.affected_communities = 100 )
           => /\ IsFraction(result.general_public, 1, 2)
              /\ IsFraction(result.experts, 1, 4)
              /\ IsFraction(result.policymakers, 1, 6)
              /\ IsFraction(result.affected_communities, 1, 12)

\* C18 witness: the profile 0.6, 0.3, 0.2, 0.1 was normalized to weights over
\* the total 1.2.
C18_Witness ==
  /\ IsNormalize
  /\ funCall.profile = [general_public |-> 600, experts |-> 300,
                        policymakers |-> 200, affected_communities |-> 100]
  /\ funCall.result.general_public = [num |-> 600, den |-> 1200]

(***************************************************************************)
(* Properties of ranking with a supplied mapping (specification            *)
(* SpecMapping).                                                           *)
(***************************************************************************)
\* the supplied mapping re-normalized to sum 1, in thousandths (the supplied
\* mappings of the model normalize to whole thousandths)
RenormalizedWeights(mapping) ==
  LET normalized == normalizeProfile(mapping)
  IN  [st \in DOMAIN normalized |-> (1000 * normalized[st].num) \div normalized[st].den]

\* C17: when VOLaM ranking is given a stakeholder-to-weight mapping instead
\* of a profile name, every item's empathyFit is the fit of its tags to that
\* mapping with its weights re-normalized to sum 1, not to a loaded profile.
C17_SuppliedMappingUsed ==
  IsVolam =>
    \A i \in DOMAIN rankCall.evidence :
       rankCall.evidence[i].empathyFit =
         calculateEmpathyFitIn([supplied |-> RenormalizedWeights(rankCall.supplied)],
                               TagList(extractContentTags(rankCall.evidence[i].keywords)),
                               "supplied").value

(***************************************************************************)
(* Properties of the AnswerService (specification SpecAnswer).             *)
(***************************************************************************)
IsAnswer == answerCall.op = "composeAnswer"

\* t occurs in s as a run of consecutive elements
ContainsSeq(s, t) ==
  \E i \in 0..(Len(s) - Len(t)) : SubSeq(s, i + 1, i + Len(t)) = t

\* C13: after every query, also one for which no evidence is retrieved,
\* exactly one observation entry carrying the ranking result's average
\* nullness has been appended to the history of the query's concept; the
\* observation is never skipped.
C13_ObservationAfterEveryQuery ==
  IsAnswer =>
    LET concept == extractConcept(answerCall.query)
    IN  /\ AppendsOneEntry(answerCall.before, history, concept)
        /\ history[concept][Len(history[concept])].nullness
             = answerCall.rankingResult.nullness

\* C19: compose with an empty evidence list returns (it does not raise)
\* confidence exactly 0, an empty citation list and a non-empty answer made
\* from the template that contains the query text.
C19_EmptyEvidenceAnswer ==
  (IsAnswer /\ Len(answerCall.evidence) = 0) =>
    /\ answerCall.composition.confidence.num = 0
    /\ answerCall.composition.citations = <<>>
    /\ Len(answerCall.composition.answer) > 0
    /\ ContainsSeq(answerCall.composition.answer, answerCall.query)
    /\ answerCall.composition.answer[1] = EmptyAnswerPrefix

\* C19 witness: a query over an empty index was answered with confidence 0
\* and the templated text around the query.
C19_Witness ==
  /\ IsAnswer
  /\ index = <<>>
  /\ answerCall.query = <<"A", " ", "b">>
  /\ answerCall.evidence = <<>>
  /\ answerCall.composition.confidence = [num |-> 0, den |-> 1]
  /\ answerCall.composition.answer
       = <<EmptyAnswerPrefix, "A", " ", "b", EmptyAnswerSuffix>>

RECURSIVE ScoreTimesCertainty(_, _, _)
\* sum over the items from position i on of (score / unit) * (1 - nullness)
ScoreTimesCertainty(evidence, i, unit) ==
  IF i > Len(evidence) THEN 0
  ELSE (evidence[i].score \div unit) * (1000 - evidence[i].nullness)
       + ScoreTimesCertainty(evidence, i + 1, unit)

RECURSIVE ScoreSum(_, _, _)
\* sum over the items from position i on of score / unit
ScoreSum(evidence, i, unit) ==
  IF i > Len(evidence) THEN 0
  ELSE (evidence[i].score \div unit) + ScoreSum(evidence, i + 1, unit)

\* the unit the claimed sums count scores in: a common divisor of the scores
ClaimUnit(evidence) == Max(1, ScoreDivisor(evidence))

\* sum(score_i * (1 - nullness_i)) / sum(score_i), 0 when the score sum is
\* not positive
ClaimedEvidenceConfidence(evidence) ==
  LET u == ClaimUnit(evidence)
  IN  IF ScoreSum(evidence, 1, u) > 0
      THEN Fraction(ScoreTimesCertainty(evidence, 1, u), 1000 * ScoreSum(evidence, 1, u))
      ELSE [num |-> 0, den |-> 1]

\* C20: for non-empty evidence compose returns
\* clamp((1 - conceptNullness) * evidenceConfidence, 0, 1), where
\* evidenceConfidence = sum(score_i * (1 - nullness_i)) / sum(score_i) (0 when
\* the score sum is not positive) and conceptNullness is the tracker's
\* current nullness of the query's concept; the confidence lies in [0,1].
C20_ComposedConfidence ==
  (IsAnswer /\ Len(answerCall.evidence) > 0) =>
    LET conceptNullness == getCurrentNullness(history, extractConcept(answerCall.query))
        product         == Times(OneMinus(conceptNullness),
                                 ClaimedEvidenceConfidence(answerCall.evidence))
        confidence      == answerCall.composition.confidence
    IN  /\ confidence = ClampFraction(product)
        /\ confidence.den > 0
        /\ 0 <= confidence.num /\ confidence.num <= confidence.den

\* C20 witness: a baseline answer over documents of similarity 0.8 and 0:
\* evidenceConfidence is 0.8 * 0.8 / 0.8 = 0.8, the concept nullness is the
\* recorded average (0.2 + 1.0) / 2 = 0.6, the confidence 0.4 * 0.8 = 0.32.
C20_Witness ==
  /\ IsAnswer
  /\ answerCall.mode = "baseline"
  /\ Len(answerCall.evidence) = 2
  /\ answerCall.evidence[1].cosineScore = 800
  /\ answerCall.evidence[2].cosineScore = 0
  /\ getCurrentNullness(history, extractConcept(answerCall.query)) = [num |-> 1200, den |-> 2]
  /\ answerCall.composition.confidence = [num |-> 8, den |-> 25]

(***************************************************************************)
(* Properties of the RankingResult metrics (specification SpecRank).       *)
(***************************************************************************)
\* C21: in baseline and in VOLaM mode the nullness of a RankingResult is the
\* arithmetic mean of the nullness of the evidence items the result returns
\* (the items left after the truncation to k).
C21_NullnessIsMeanOfReturned ==
  (HasRanked /\ Len(rankCall.evidence) > 0) =>
    rankCall.nullness.num * Len(rankCall.evidence)
      = SumField(rankCall.evidence, "nullness") * rankCall.nullness.den

\* every candidate of the last ranking has cosineScore, nullness and
\* empathyFit in [0,1]
CandidatesInRange ==
  \A i \in DOMAIN rankCall.candidates :
     LET e == ScoreEvidence(convertToEvidence(rankCall.candidates[i]),
                            rankCall.alpha, rankCall.beta, rankCall.gamma, "default")
     IN  /\ 0 <= e.cosineScore /\ e.cosineScore <= 1000
         /\ 0 <= e.nullness /\ e.nullness <= 1000
         /\ 0 <= e.empathyFit /\ e.empathyFit <= 12000

\* C22: the confidence of a RankingResult lies in [0,1] for every candidate
\* set whose cosineScore, nullness and empathyFit are in [0,1] and every
\* alpha, beta, gamma in [0,1] (confidence is num / den in units of
\* 1/12000000).
C22_ConfidenceInUnitRange ==
  (HasRanked /\ CandidatesInRange) =>
    /\ 0 <= rankCall.confidence.num
    /\ rankCall.confidence.num <= 12000000 * rankCall.confidence.den

(***************************************************************************)
(* Properties of the concept function (specification SpecConcept).         *)
(***************************************************************************)
IsConcept == funCall.fn = "extractConcept"

Whitespace == {" ", "\t"}

RECURSIVE WordsFrom(_, _, _, _)
WordsFrom(s, i, cur, acc) ==
  IF i > Len(s) THEN (IF cur = <<>> THEN acc ELSE Append(acc, cur))
  ELSE IF s[i] \in Whitespace
       THEN WordsFrom(s, i + 1, <<>>, IF cur = <<>> THEN acc ELSE Append(acc, cur))
       ELSE WordsFrom(s, i + 1, Append(cur, s[i]), acc)

\* the whitespace-separated tokens of a string
WhitespaceTokens(s) == WordsFrom(s, 1, <<>>, <<>>)

\* the query that has the same first three whitespace tokens up to case and
\* nothing else: the tokens lower-cased, one space between them
FirstThreeTokens(query) == JoinWith(Take(WhitespaceTokens(ToLowerCase(query)), 3), " ")

\* C23: the concept of a query is a function of its first three
\* whitespace-separated tokens up to case only (the query and the query made
\* of just those tokens have the same concept, whatever whitespace separates
\* the tokens and whatever follows them), and the AnswerService and the
\* NullnessService derive the same concept.
C23_ConceptOfFirstThreeTokens ==
  IsConcept =>
    /\ funCall.tracker = extractConcept(FirstThreeTokens(funCall.query))
    /\ funCall.composer = funCall.tracker

(***************************************************************************)
(* Properties of the POST /update_nullness handler (specification          *)
(* SpecUpdate).                                                            *)
(***************************************************************************)
IsUpdateRequest == funCall.fn = "POST /update_nullness"

\* the body fails boundary validation: unknown action, missing
\* evidence_strength, or evidence_strength, k or lambda out of range
FailsValidation(body) ==
  \/ body.action \notin {"support", "refute"}
  \/ "evidence_strength" \notin body.given
  \/ body.evidence_strength < 0 \/ body.evidence_strength > 10
  \/ ("k" \in body.given /\ (body.k < 0 \/ body.k > 20))
  \/ ("lambda" \in body.given /\ (body.lambda < 0 \/ body.lambda > 10))

\* C24: an explicit update request that fails boundary validation is
\* answered with HTTP 400 and leaves every concept's history unchanged: no
\* entry is appended and current(concept) is what it was before.
C24_RejectedUpdateChangesNothing ==
  (IsUpdateRequest /\ FailsValidation(funCall.body)) =>
    /\ funCall.status = 400
    /\ history = funCall.before
    /\ getCurrentNullness(history, funCall.body.concept)
         = getCurrentNullness(funCall.before, funCall.body.concept)

\* C24 witness: after an accepted update of concept a_b, a request for a_b
\* with evidence_strength 1.1 was answered 400 and a_b still has its one
\* entry.
C24_Witness ==
  /\ IsUpdateRequest
  /\ funCall.status = 400
  /\ funCall.body.concept = <<"a", "_", "b">>
  /\ funCall.body.action = "support"
  /\ funCall.body.evidence_strength = 11
  /\ <<"a", "_", "b">> \in DOMAIN history
  /\ Len(history[<<"a", "_", "b">>]) = 1
  /\ history = funCall.before

(***************************************************************************)
(* Properties of overlapping calls (specification SpecConcurrent).         *)
(***************************************************************************)
\* C25: for every interleaving of concurrent updateNullnessExplicit calls at
\* their await points, also on a concept that has no history yet, the old
\* value a call returns is the nullness of the entry immediately before the
\* entry it appends (0.5 only if it appends the concept's first entry).
C25_NoStaleOldValue ==
  IsExplicit =>
    LET hist == history[lastCall.concept]
    IN  IF Len(hist) = 1
        THEN lastCall.oldNullness = DefaultNullness
        ELSE lastCall.oldNullness = hist[Len(hist) - 1].nullness

\* no entry was appended to the last call's concept between the moment the
\* call was made and the moment it resumed
UndisturbedConcept ==
  getNullnessHistory(lastCall.atCall, lastCall.concept)
    = getNullnessHistory(lastCall.before, lastCall.concept)

\* C27: updates to different concepts are independent: whatever was done to
\* other concepts between a call's start and its resumption (the other call
\* first, last, or interleaved at the await), the call returns the old, new
\* and delta values it returns when it runs alone on the tracker as it was
\* when the call was made, it appends its entry to its own concept, and it
\* leaves every other concept's history as it is.
C27_DifferentConceptsIndependent ==
  /\ (IsExplicit /\ UndisturbedConcept) =>
       LET alone == ExplicitUpdate(lastCall.atCall, lastCall.concept, lastCall.action,
                                   lastCall.evidenceStrength, lastCall.k, lastCall.lambda,
                                   lastCall.timestamp)
       IN  /\ lastCall.oldNullness = alone.oldNullness
           /\ lastCall.newNullness = alone.newNullness
           /\ lastCall.deltaNullness = alone.deltaNullness
           /\ history[lastCall.concept]
                = Append(getNullnessHistory(lastCall.atCall, lastCall.concept), alone.entry)
           /\ \A c \in DOMAIN history \ {lastCall.concept} :
                 c \in DOMAIN lastCall.before /\ history[c] = lastCall.before[c]
  /\ IsRecord =>
       \A c \in DOMAIN history \ {lastCall.concept} :
          c \in DOMAIN lastCall.before /\ history[c] = lastCall.before[c]

\* C27 witness: an explicit update of one concept resumed after an update of
\* another concept, made later or resumed in between, had appended its entry.
C27_Witness ==
  /\ IsExplicit
  /\ UndisturbedConcept
  /\ \E c \in DOMAIN lastCall.before :
        /\ c # lastCall.concept
        /\ c \notin DOMAIN lastCall.atCall
        /\ Len(history[c]) = 1
  /\ Len(history[lastCall.concept]) = 1
  /\ lastCall.oldNullness = DefaultNullness

(***************************************************************************)
(* Timestamps of the history entries (specification SpecHistory).          *)
(***************************************************************************)
\* C26: within each concept's history the entry timestamps are strictly
\* increasing in append order, after any sequence of record and explicit
\* update operations.
C26_StrictlyIncreasingTimestamps ==
  \A c \in DOMAIN history :
     \A i \in 1..(Len(history[c]) - 1) :
        history[c][i].timestamp < history[c][i + 1].timestamp

(***************************************************************************)
(* Properties of the server's tracker state (specification SpecServer).    *)
(***************************************************************************)
IsHistoryRead == funCall.fn = "GET /nullness/history"

\* the number of entries the routes have appended for a concept, whichever
\* route did it
RecordedFor(concept) ==
  Len(getNullnessHistory(nullnessServices.rank, concept))
    + Len(getNullnessHistory(nullnessServices.nullness, concept))
    + Len(getNullnessHistory(nullnessServices.answer, concept))

\* C28: there is one tracker state per process: the observations of ranking
\* and answer queries for a concept and the explicit updates of that concept
\* are appended to the same history, so the history read for the concept
\* returns every one of them.
C28_OneTrackerPerProcess ==
  IsHistoryRead => Len(funCall.entries) = RecordedFor(funCall.concept)

(***************************************************************************)
(* Order of record and read in composeAnswer (specification SpecCompose).  *)
(***************************************************************************)
\* C29: in a compose call with non-empty evidence the observation is
\* recorded before the concept nullness is read: the concept nullness the
\* call uses is the rankingResult.nullness of that call, and the confidence
\* it returns is the one it returns on a tracker without history, whatever
\* the concept's history was before (explicit updates included).
C29_RecordBeforeRead ==
  (IsAnswer /\ Len(answerCall.evidence) > 0) =>
    /\ getCurrentNullness(history, extractConcept(answerCall.query))
         = answerCall.rankingResult.nullness
    /\ answerCall.composition.confidence
         = ClampFraction(Times(OneMinus(answerCall.rankingResult.nullness),
                               ClaimedEvidenceConfidence(answerCall.evidence)))
    /\ \A prior \in PriorTrackers :
          composeAnswer(prior, answerCall.query, answerCall.evidence,
                        answerCall.rankingResult, answerCall.timestamp).composition.confidence
            = answerCall.composition.confidence

\* C29 witness: a compose call for concept a_b, whose history ended with the
\* nullness 0.9 of an explicit refute, used the call's own average nullness
\* 0.2 and returned confidence 0.8 * 0.8 = 0.64.
C29_Witness ==
  /\ IsAnswer
  /\ extractConcept(answerCall.query) = <<"a", "_", "b">>
  /\ <<"a", "_", "b">> \in DOMAIN answerCall.before
  /\ getCurrentNullness(answerCall.before, <<"a", "_", "b">>) = [num |-> 900, den |-> 1]
  /\ Len(answerCall.evidence) = 1
  /\ answerCall.rankingResult.nullness = [num |-> 200, den |-> 1]
  /\ answerCall.composition.confidence = [num |-> 16, den |-> 25]

(***************************************************************************)
(* Properties of the empathy-profile hook (specification SpecHook).        *)
(***************************************************************************)
\* every weight of the held profile lies in [0, 1]
WeightsInUnitRange ==
  \A st \in DOMAIN hookProfile :
     /\ hookProfile[st].den > 0
     /\ 0 <= hookProfile[st].num
     /\ hookProfile[st].num <= hookProfile[st].den

\* the weights of the held profile are not all zero
NotAllZero == \E st \in DOMAIN hookProfile : hookProfile[st].num > 0

\* C30: after any sequence of updateStakeholder, setFullProfile and
\* resetProfile calls with non-negative weights the profile held by the hook
\* is non-empty, every weight lies in [0, 1], the weights sum to 1 and the
\* profile is not all-zero; an update that would make the sum 0 yields the
\* default profile.
C30_HookProfileNormalized ==
  /\ DOMAIN hookProfile # {}
  /\ WeightsInUnitRange
  /\ SumsToOne(hookProfile)
  /\ NotAllZero
  /\ (/\ funCall.fn = "updateStakeholder"
      /\ funCall.weight = 0
      /\ \A st \in DOMAIN funCall.prev \ {funCall.stakeholder} : funCall.prev[st].num = 0)
       => hookProfile = AsWeights(DEFAULT_PROFILE)

\* C30 witness: the profile held one stakeholder only, updateStakeholder set
\* its weight to 0, and the hook holds the default profile.
C30_Witness ==
  /\ funCall.fn = "updateStakeholder"
  /\ funCall.calls = 2
  /\ DOMAIN funCall.prev = {"experts"}
  /\ funCall.stakeholder = "experts"
  /\ funCall.weight = 0
  /\ hookProfile = AsWeights(DEFAULT_PROFILE)

====
